---- MODULE Spec2Model ----
(***************************************************************************)
(* FlowState: the heal orchestrator (runFlowState, runFlowStateAPI), the   *)
(* inspection and patch services it calls, and the response normalizer     *)
(* (parseInspectorResponse, parseSurgeonResponse).                         *)
(* Also the Patch Service entry points called directly (operate,           *)
(* operateOnCode), the usage ledger (lib/usage-tracker.js) and the asset   *)
(* routes of the server that spend from it.  Also the browser overlay      *)
(* (mergeDefects, analyzeElementLocally, element selection, quick fix and  *)
(* undo), the Asset Service (generateAsset), the screenshot routes of the  *)
(* server and the ledger with its costs as floating-point numbers.         *)
(***************************************************************************)
EXTENDS Integers, Sequences, FiniteSets, TLC

VARIABLES
    pText,      \* normalizer: the raw model text handed to parseInspectorResponse
    pOut,       \* normalizer: what the call produced ("none" before the call)
    opts,       \* runFlowState: the options of each invocation
    run,        \* runFlowState: locals, result and position of each invocation
    disk,       \* the file system each invocation works on (normalized path -> content)
    disk0,      \* the file system as it was when the invocation started
    writes,     \* the fs.writeFileSync calls of each invocation, in order
    inspScript, \* the Inspection Service's answers so far, by call number
    surgScript, \* the Patch Service's answers so far, by call number
    api,        \* runFlowStateAPI: options, result and position of the invocation
    patch,      \* Patch Service: one call of an entry point, its arguments and its result
    data,       \* usage ledger: this.data of the tracker
    usageFile,  \* usage ledger: the content of usage-data.json as load() reads it
    now,        \* the clock read by new Date(); it advances with every ledger operation
    since,      \* the ledger as it was when last loaded or reset
    tracked,    \* the track() calls completed since then, oldest first
    last,       \* the last operation on the ledger and the ledger before it
    reqs,       \* server: the asset requests, by slot
    merge,      \* overlay: one call of mergeDefects, its arguments and its result
    probe,      \* overlay: one call of analyzeElementLocally, the element and its result
    selectedElement, \* overlay: the element selected by the last click
    currentDefects, \* overlay: `defects`, the defect list of the last analysis
    defectsOf,  \* the element that list was computed for
    panel,      \* overlay: what the panel body shows
    pending,    \* overlay: the analyses waiting for the answer of /api/inspect
    analysisCache, \* overlay: the merged defect lists, by cache key
    elStyle,    \* the page: el.style (and el.src) of each element
    undoStack,  \* overlay: the entries pushed for undo
    allChanges, \* overlay: the changes to export
    edit,       \* overlay: the similar elements and styles offered for propagation
    gestures,   \* the number of clicks and key presses of the user so far
    hist,       \* for each entry of the undo stack, the styles and changes before it
    asset,      \* Asset Service: one call of generateAsset, the model's answer and the result
    tmp,        \* server: the temporary screenshot files (path -> content)
    shots,      \* server: the screenshot inspection requests, by slot
    data64,     \* usage ledger: this.data with its costs as floating-point numbers
    calls64     \* the number of calls made on that ledger

parseVars == <<pText, pOut>>
healVars == <<opts, run, disk, disk0, writes, inspScript, surgScript>>
apiVars == <<api>>
patchVars == <<patch>>
ledgerVars == <<data, usageFile, now, since, tracked, last, reqs>>
mergeVars == <<merge>>
localVars == <<probe>>
backVars == <<parseVars, healVars, apiVars, patchVars, ledgerVars>>
overlayVars == <<selectedElement, currentDefects, defectsOf, panel, pending, analysisCache,
                 elStyle, undoStack, allChanges, edit, gestures, hist>>
assetVars == <<asset>>
routeVars == <<tmp, shots>>
floatVars == <<data64, calls64>>
frontVars == <<mergeVars, localVars, overlayVars, assetVars, routeVars, floatVars>>

\* ------------------------------------------------------------------------
\* Bounds
\* ------------------------------------------------------------------------
MaxDefects == 2
MaxPathLen == 3
MaxIter == 2
MaxPieces == 3
MaxRequests == 2
MaxTime == 3
MaxTracks == 102

\* ------------------------------------------------------------------------
\* JavaScript values as they come out of JSON.parse
\* ------------------------------------------------------------------------
Undefined == [t |-> "undefined"]
JNull == [t |-> "null"]
JBool(b) == [t |-> "bool", v |-> b]
JNum(n) == [t |-> "num", v |-> n]
JStr(s) == [t |-> "str", v |-> s]
JArr(s) == [t |-> "arr", v |-> s]
JObj(f) == [t |-> "obj", v |-> f]

\* typeof x
TypeOf(x) ==
    CASE x.t = "undefined" -> "undefined"
      [] x.t = "bool" -> "boolean"
      [] x.t = "num" -> "number"
      [] x.t = "str" -> "string"
      [] OTHER -> "object"

\* Array.isArray(x)
IsArray(x) == x.t = "arr"

\* ToBoolean(x), as used by || and if
Truthy(x) ==
    CASE x.t \in {"undefined", "null"} -> FALSE
      [] x.t = "bool" -> x.v
      [] x.t = "num" -> x.v # 0
      [] x.t = "str" -> x.v # ""
      [] OTHER -> TRUE

\* a property read x.key raises a TypeError exactly on null and undefined
CanRead(x) == x.t \notin {"undefined", "null"}

\* x.key for a readable x: own properties of objects, undefined otherwise
Get(x, key) == IF x.t = "obj" /\ key \in DOMAIN x.v THEN x.v[key] ELSE Undefined

\* a || b
OrElse(a, b) == IF Truthy(a) THEN a ELSE b

\* an object literal: the keys whose value is not undefined
ObjOf(f) == JObj([k \in {k \in DOMAIN f : f[k] # Undefined} |-> f[k]])

\* ------------------------------------------------------------------------
\* Model text: a sequence of pieces.  A "doc" piece is the serialization of
\* one JSON value, a "junk" piece is text that is not JSON (prose, a
\* truncated document), "ws" is whitespace, "fenceJson" is ```json (any
\* case) and "fence" is a bare ```.
\* ------------------------------------------------------------------------
Ws == [k |-> "ws"]
Junk == [k |-> "junk"]
FenceJson == [k |-> "fenceJson"]
Fence == [k |-> "fence"]
Doc(v) == [k |-> "doc", v |-> v]

\* text.replace(/<fence>\s*/g, ""): drop every such fence and the whitespace after it
RECURSIVE DropFence(_, _, _)
DropFence(text, kind, afterFence) ==
    IF text = <<>> THEN <<>>
    ELSE IF Head(text).k = kind THEN DropFence(Tail(text), kind, TRUE)
    ELSE IF afterFence /\ Head(text).k = "ws" THEN DropFence(Tail(text), kind, TRUE)
    ELSE <<Head(text)>> \o DropFence(Tail(text), kind, FALSE)

RECURSIVE TrimLeft(_)
TrimLeft(text) ==
    IF text # <<>> /\ Head(text).k = "ws" THEN TrimLeft(Tail(text)) ELSE text

RECURSIVE TrimRight(_)
TrimRight(text) ==
    IF text # <<>> /\ text[Len(text)].k = "ws"
    THEN TrimRight(SubSeq(text, 1, Len(text) - 1)) ELSE text

\* String.prototype.trim
Trim(text) == TrimRight(TrimLeft(text))

\* safe-parse.js 10-13
StripFencing(text) == Trim(DropFence(DropFence(text, "fenceJson", FALSE), "fence", FALSE))

NonWs(text) == SelectSeq(text, LAMBDA p : p.k # "ws")

\* JSON.parse accepts exactly one JSON value with whitespace around it
JsonParses(text) == Len(NonWs(text)) = 1 /\ NonWs(text)[1].k = "doc"
JsonParse(text) == NonWs(text)[1].v

\* ------------------------------------------------------------------------
\* parseInspectorResponse (lib/safe-parse.js)
\* ------------------------------------------------------------------------
\* `defect-${index + 1}` for the 0-based index of Array.prototype.map
DefectIdText == <<"defect-1", "defect-2", "defect-3", "defect-4", "defect-5", "defect-6">>
\* the 0-based index used as it is
SynthId_ZeroBased(index) == IF index = 0 THEN JStr("defect-0") ELSE JStr(DefectIdText[index])

SynthId(index) == JStr(DefectIdText[index + 1])

\* the map callback raises a TypeError on a null entry (defect.id of null)
EntryThrows(defect) == TypeOf(defect) # "string" /\ ~CanRead(defect)

\* the map callback, safe-parse.js 31-55
NormalizeDefect(defect, index) ==
    IF TypeOf(defect) = "string"
    THEN [id |-> SynthId(index),
          element |-> JStr("unknown"),
          element_text |-> JNull,
          selector_hint |-> JStr("*"),
          issue |-> defect,
          expected |-> JNull,
          why |-> JNull]
    ELSE [id |-> OrElse(Get(defect, "id"), SynthId(index)),
          element |-> OrElse(Get(defect, "element"), JStr("unknown")),
          element_text |-> OrElse(Get(defect, "element_text"), JNull),
          selector_hint |-> OrElse(Get(defect, "selector_hint"), JStr("*")),
          issue |-> OrElse(Get(defect, "issue"),
                           OrElse(Get(defect, "description"), JStr("Unknown issue"))),
          expected |-> OrElse(Get(defect, "expected"), JNull),
          why |-> OrElse(Get(defect, "why"), JNull)]

NormalizeDefects(raw) == [i \in 1..Len(raw) |-> NormalizeDefect(raw[i], i - 1)]

Threw(msg) == [threw |-> TRUE, error |-> msg]
Returned(val) == [threw |-> FALSE, value |-> val]

\* validations that accept anything
LooksGoodValid_Unchecked(parsed) == TRUE
NeedsAssetValid_Unchecked(parsed) == TRUE

\* the three field validations, safe-parse.js 18-28
LooksGoodValid(parsed) == TypeOf(Get(parsed, "looks_good")) = "boolean"
VisualDefectsValid(parsed) == IsArray(Get(parsed, "visual_defects"))
NeedsAssetValid(parsed) == TypeOf(Get(parsed, "needs_asset_generation")) = "boolean"

\* the try block, safe-parse.js 8-65
ParseTryBlock(text) ==
    LET cleaned == StripFencing(text) IN
    IF ~JsonParses(cleaned) THEN Threw("Unexpected token in JSON")
    ELSE LET parsed == JsonParse(cleaned) IN
    IF ~CanRead(parsed) THEN Threw("Cannot read properties of null")
    ELSE IF ~LooksGoodValid(parsed)
         THEN Threw("Missing or invalid 'looks_good' field (expected boolean)")
    ELSE IF ~VisualDefectsValid(parsed)
         THEN Threw("Missing or invalid 'visual_defects' field (expected array)")
    ELSE IF ~NeedsAssetValid(parsed)
         THEN Threw("Missing or invalid 'needs_asset_generation' field (expected boolean)")
    ELSE LET raw == Get(parsed, "visual_defects").v IN
    IF \E i \in 1..Len(raw) : EntryThrows(raw[i])
    THEN Threw("Cannot read properties of null")
    ELSE Returned([success |-> TRUE,
                   error |-> "",
                   data |-> [looks_good |-> Get(parsed, "looks_good"),
                             visual_defects |-> NormalizeDefects(raw),
                             needs_asset_generation |-> Get(parsed, "needs_asset_generation"),
                             asset_generation_prompt |->
                                 OrElse(Get(parsed, "asset_generation_prompt"), JNull)]])

ParseErrorDefect ==
    [id |-> JStr("defect-parse-error"),
     element |-> JStr("unknown"),
     element_text |-> JNull,
     selector_hint |-> JStr("*"),
     issue |-> JStr("Parse error - manual review required"),
     expected |-> JNull,
     why |-> JNull]

\* the catch block, safe-parse.js 66-88
ParseCatchBlock(msg) ==
    [success |-> FALSE,
     error |-> msg,
     data |-> [looks_good |-> JBool(FALSE),
               visual_defects |-> <<ParseErrorDefect>>,
               needs_asset_generation |-> JBool(FALSE),
               asset_generation_prompt |-> JNull]]

\* the whole function: what the call does ("return" or "raise") and its value
parseInspectorResponse(text) ==
    LET body == ParseTryBlock(text) IN
    IF body.threw
    THEN [kind |-> "return", value |-> ParseCatchBlock(body.error)]
    ELSE [kind |-> "return", value |-> body.value]

\* ------------------------------------------------------------------------
\* parseSurgeonResponse (lib/safe-parse.js).  The patch text is a sequence
\* of pieces too: "ws" (one character), "fence" (```), "tag" (a word right
\* after a fence; known is TRUE for jsx, js, tsx, ts, javascript and
\* typescript) and "code" (any other run of characters), each with its
\* length.
\* ------------------------------------------------------------------------
Tag(word, known, len) == [k |-> "tag", s |-> word, known |-> known, len |-> len]
Code(word, len) == [k |-> "code", s |-> word, len |-> len]

PieceLen(piece) ==
    CASE piece.k = "ws" -> 1
      [] piece.k = "fence" -> 3
      [] OTHER -> piece.len

RECURSIVE TextLen(_)
TextLen(text) == IF text = <<>> THEN 0 ELSE PieceLen(Head(text)) + TextLen(Tail(text))

\* a string value whose characters are the pieces
JText(text) == [t |-> "text", v |-> text]

FenceAt(text) == {i \in 1..Len(text) : text[i].k = "fence"}
MinOf(S) == CHOOSE i \in S : \A j \in S : i <= j

\* code.match(/```(?:jsx?|tsx?|javascript|typescript)?\s*([\s\S]*?)```/):
\* the leftmost fence that has a fence after it opens the block
HasCodeBlock(text) == Cardinality(FenceAt(text)) >= 2

\* capture group 1 of the match
CodeBlock(text) ==
    LET open == MinOf(FenceAt(text))
        close == MinOf(FenceAt(text) \ {open})
        afterTag == IF open + 1 < close /\ text[open + 1].k = "tag" /\ text[open + 1].known
                    THEN open + 2 ELSE open + 1
    IN TrimLeft(SubSeq(text, afterTag, close - 1))

\* `code.length < 10`, safe-parse.js 108
MinCodeLength == 10
\* a threshold that also rejects code of exactly the minimal length
TooShort_Inclusive(code) == TextLen(code) <= MinCodeLength
TooShort(code) == TextLen(code) < MinCodeLength

\* safe-parse.js 96-125
parseSurgeonResponse(text) ==
    LET trimmed == Trim(text)
        code == IF HasCodeBlock(trimmed) THEN Trim(CodeBlock(trimmed)) ELSE trimmed
    IN IF TooShort(code)
       THEN [success |-> FALSE, error |-> "Response too short to be valid code", code |-> JNull]
       ELSE [success |-> TRUE, error |-> "", code |-> JText(code)]

\* ------------------------------------------------------------------------
\* Paths (node:path, posix).  A path is a sequence of characters; the
\* characters of the literal "flowstate-preview" are kept as one element.
\* ------------------------------------------------------------------------
Slash == "/"
Dot == "."

RECURSIVE StripTrailingSlashes(_)
StripTrailingSlashes(p) ==
    IF p # <<>> /\ p[Len(p)] = Slash
    THEN StripTrailingSlashes(SubSeq(p, 1, Len(p) - 1)) ELSE p

\* index of the last occurrence of c in p, 0 when there is none
LastIndexOf(p, c) ==
    LET hits == {i \in 1..Len(p) : p[i] = c} IN
    IF hits = {} THEN 0 ELSE CHOOSE i \in hits : \A j \in hits : j <= i

\* the last path segment, trailing slashes ignored
LastSegment(p) ==
    LET q == StripTrailingSlashes(p) IN SubSeq(q, LastIndexOf(q, Slash) + 1, Len(q))

\* path.extname
extname(p) ==
    LET seg == LastSegment(p)
        d == LastIndexOf(seg, Dot) IN
    IF d = 0 \/ d = 1 \/ seg = <<Dot, Dot>> THEN <<>> ELSE SubSeq(seg, d, Len(seg))

EndsWith(p, suffix) ==
    Len(suffix) <= Len(p) /\ SubSeq(p, Len(p) - Len(suffix) + 1, Len(p)) = suffix

\* path.basename(p, ext)
basename(p, ext) ==
    LET seg == LastSegment(p) IN
    IF ext # <<>> /\ ext # p /\ EndsWith(seg, ext) /\ seg # ext
    THEN SubSeq(seg, 1, Len(seg) - Len(ext))
    ELSE IF ext # <<>> /\ ext = p THEN <<>> ELSE seg

\* path.dirname
dirname(p) ==
    IF p = <<>> THEN <<Dot>>
    ELSE LET hasRoot == p[1] = Slash
             \* slashes at (1-based) position >= 2 that precede a non-slash character
             cuts == {i \in 2..Len(p) : p[i] = Slash /\ \E j \in (i + 1)..Len(p) : p[j] # Slash}
             end == IF cuts = {} THEN 0 ELSE CHOOSE i \in cuts : \A j \in cuts : j <= i
         IN IF end = 0 THEN (IF hasRoot THEN <<Slash>> ELSE <<Dot>>)
            ELSE IF hasRoot /\ end = 2 THEN <<Slash, Slash>>
            ELSE SubSeq(p, 1, end - 1)

\* the segments between slashes, empty ones included
RECURSIVE Segments(_)
Segments(p) ==
    LET hits == {i \in 1..Len(p) : p[i] = Slash} IN
    IF hits = {} THEN <<p>>
    ELSE LET i == CHOOSE i \in hits : \A j \in hits : i <= j IN
         <<SubSeq(p, 1, i - 1)>> \o Segments(SubSeq(p, i + 1, Len(p)))

\* normalizeString: resolve "." and ".." segments
RECURSIVE ResolveSegments(_, _, _)
ResolveSegments(segs, acc, allowAboveRoot) ==
    IF segs = <<>> THEN acc
    ELSE LET s == Head(segs) IN
         IF s = <<>> \/ s = <<Dot>> THEN ResolveSegments(Tail(segs), acc, allowAboveRoot)
         ELSE IF s = <<Dot, Dot>>
         THEN IF acc # <<>> /\ acc[Len(acc)] # <<Dot, Dot>>
              THEN ResolveSegments(Tail(segs), SubSeq(acc, 1, Len(acc) - 1), allowAboveRoot)
              ELSE IF allowAboveRoot
              THEN ResolveSegments(Tail(segs), Append(acc, s), allowAboveRoot)
              ELSE ResolveSegments(Tail(segs), acc, allowAboveRoot)
         ELSE ResolveSegments(Tail(segs), Append(acc, s), allowAboveRoot)

RECURSIVE JoinSegments(_)
JoinSegments(segs) ==
    IF segs = <<>> THEN <<>>
    ELSE IF Len(segs) = 1 THEN segs[1]
    ELSE segs[1] \o <<Slash>> \o JoinSegments(Tail(segs))

\* path.normalize
normalize(p) ==
    IF p = <<>> THEN <<Dot>>
    ELSE LET isAbsolute == p[1] = Slash
             trailingSeparator == p[Len(p)] = Slash
             body == JoinSegments(ResolveSegments(Segments(p), <<>>, ~isAbsolute))
         IN IF body = <<>>
            THEN (IF isAbsolute THEN <<Slash>>
                  ELSE IF trailingSeparator THEN <<Dot, Slash>> ELSE <<Dot>>)
            ELSE (IF isAbsolute THEN <<Slash>> ELSE <<>>) \o body
                 \o (IF trailingSeparator THEN <<Slash>> ELSE <<>>)

\* path.join(a, b) for two non-empty arguments
join(a, b) == normalize(a \o <<Slash>> \o b)

\* the literal ".flowstate-preview"
PreviewInfix == <<Dot, "flowstate-preview">>

\* a preview path built without the ".flowstate-preview" infix
PreviewPathOf_NoInfix(codePath) ==
    LET ext == extname(codePath)
        base == basename(codePath, ext)
        dir == dirname(codePath)
    IN join(dir, base \o ext)

\* orchestrator 6272-6275 (and surgeon.js 122-125)
PreviewPathOf(codePath) ==
    LET ext == extname(codePath)
        base == basename(codePath, ext)
        dir == dirname(codePath)
    IN join(dir, base \o PreviewInfix \o ext)

\* ------------------------------------------------------------------------
\* Inputs of the normalizer
\* ------------------------------------------------------------------------
\* raw entries of visual_defects: null, a number, a legacy string, and objects
\* with and without an explicit id (an empty id is falsy)
RawEntries ==
    {JNull, JNum(7), JStr("Low contrast"),
     ObjOf([id |-> JStr("defect-2"), issue |-> JStr("Padding too small")]),
     ObjOf([id |-> Undefined, issue |-> JStr("Padding too small")]),
     ObjOf([id |-> JStr(""), description |-> JStr("Radius too small")]),
     ObjOf([id |-> Undefined, issue |-> Undefined])}

RECURSIVE SeqsUpTo(_, _)
SeqsUpTo(S, n) ==
    IF n = 0 THEN {<<>>}
    ELSE LET shorter == SeqsUpTo(S, n - 1) IN
         shorter \cup {Append(s, e) : s \in {q \in shorter : Len(q) = n - 1}, e \in S}

FlagChoices == {Undefined, JBool(TRUE), JBool(FALSE), JStr("yes")}
DefectsChoices == {Undefined, JStr("none")} \cup {JArr(s) : s \in SeqsUpTo(RawEntries, MaxDefects)}
PromptChoices == {Undefined, JStr("A round avatar")}

\* documents that are not objects
ScalarDocs == {JNull, JNum(1), JArr(<<>>), JStr("ok")}

ReportDoc(g, d, n, p) ==
    ObjOf([looks_good |-> g, visual_defects |-> d,
           needs_asset_generation |-> n, asset_generation_prompt |-> p])

\* the ways a document is wrapped in the model's reply
Wrap(doc) ==
    {<<Doc(doc)>>,
     <<FenceJson, Ws, Doc(doc), Ws, Fence>>,
     <<Fence, Ws, Doc(doc), Ws, Fence, Ws>>,
     <<Junk, Ws, Doc(doc)>>}

\* replies holding no document at all: empty, prose, truncated JSON
BrokenTexts == {<<>>, <<Junk>>, <<Ws>>, <<FenceJson, Ws, Junk>>}

\* ------------------------------------------------------------------------
\* The Inspection Service (agents/inspector.js) and the Patch Service
\* (agents/surgeon.js) as the orchestrator sees them
\* ------------------------------------------------------------------------
\* What one call meets: a missing screenshot file, a model call that throws,
\* or a model call that answers with a text.
MissingFile == [k |-> "missingFile"]
ApiError == [k |-> "apiError"]
Answer(text) == [k |-> "text", text |-> text]

\* result.response.text() handed to the normalizer, inspector.js 123-134
InspectAnswer(text) ==
    LET parsed == parseInspectorResponse(text) IN
    IF parsed.kind = "raise"
    THEN [success |-> FALSE, error |-> parsed.error, data |-> JNull]
    ELSE parsed.value

\* inspect(imagePath), inspector.js 82-143
inspect(outcome) ==
    CASE outcome.k = "missingFile" ->
            [success |-> FALSE, error |-> "File not found", data |-> JNull]
      [] outcome.k = "apiError" ->
            [success |-> FALSE, error |-> "API call failed", data |-> JNull]
      [] OTHER -> InspectAnswer(outcome.text)

\* inspectBase64(base64Image, mimeType), inspector.js 151-177
inspectBase64(outcome) ==
    CASE outcome.k = "apiError" ->
            [success |-> FALSE, error |-> "API call failed", data |-> JNull]
      [] OTHER -> InspectAnswer(outcome.text)

\* `!defects || defects.length === 0`, surgeon.js 145
NoDefectsProvided(defects) == ~Truthy(defects) \/ Len(defects.v) = 0

\* operateOnCode(code, defects), surgeon.js 144-182
operateOnCode(code, defects, outcome) ==
    IF NoDefectsProvided(defects)
    THEN [success |-> FALSE, error |-> "No defects provided", code |-> JNull]
    ELSE IF outcome.k = "apiError"
    THEN [success |-> FALSE, error |-> "API call failed", code |-> JNull]
    ELSE parseSurgeonResponse(outcome.text)

\* model.generateContent calls made by operateOnCode, surgeon.js 145-170
operateOnCodeCalls(code, defects) == IF NoDefectsProvided(defects) THEN 0 ELSE 1

\* a component file handed to operate: absent, or present with its content
NoFile == [t |-> "nofile"]

\* operate that hands the unpatched code back when the model call fails
operate_KeepsCodeOnError(file, defects, outcome) ==
    IF file = NoFile
    THEN [success |-> FALSE, error |-> "File not found", code |-> JNull]
    ELSE IF NoDefectsProvided(defects)
    THEN [success |-> FALSE, error |-> "No defects provided", code |-> JNull]
    ELSE IF outcome.k = "apiError"
    THEN [success |-> FALSE, error |-> "API call failed", code |-> file]
    ELSE parseSurgeonResponse(outcome.text)

\* operate(codePath, defects), surgeon.js 43-104
operate(file, defects, outcome) ==
    IF file = NoFile
    THEN [success |-> FALSE, error |-> "File not found", code |-> JNull]
    ELSE IF NoDefectsProvided(defects)
    THEN [success |-> FALSE, error |-> "No defects provided", code |-> JNull]
    ELSE IF outcome.k = "apiError"
    THEN [success |-> FALSE, error |-> "API call failed", code |-> JNull]
    ELSE parseSurgeonResponse(outcome.text)

\* model.generateContent calls made by operate, surgeon.js 45-85
operateCalls(file, defects) == IF file = NoFile \/ NoDefectsProvided(defects) THEN 0 ELSE 1

\* the answers the model gives to an inspection in the heal pipeline
GoodReport == ReportDoc(JBool(TRUE), JArr(<<>>), JBool(FALSE), Undefined)
OneDefectReport ==
    ReportDoc(JBool(FALSE),
              JArr(<<ObjOf([id |-> Undefined, issue |-> JStr("Padding too small")])>>),
              JBool(FALSE), Undefined)
TwoDefectReport ==
    ReportDoc(JBool(FALSE),
              JArr(<<JStr("Low contrast"),
                     ObjOf([id |-> JStr("defect-2"), issue |-> JStr("Padding too small")])>>),
              JBool(TRUE), JStr("A round avatar"))
EmptyDefectReport == ReportDoc(JBool(FALSE), JArr(<<>>), JBool(FALSE), Undefined)
GoodWithDefectReport == ReportDoc(JBool(TRUE), JArr(<<JStr("Low contrast")>>), JBool(FALSE), Undefined)

\* a reply without looks_good: the schema validation rejects it
NoFlagReport == ReportDoc(Undefined, JArr(<<JStr("Low contrast")>>), JBool(FALSE), Undefined)

InspectTexts ==
    {<<Doc(GoodReport)>>,
     <<Doc(OneDefectReport)>>,
     <<FenceJson, Ws, Doc(TwoDefectReport), Ws, Fence>>,
     <<Doc(EmptyDefectReport)>>,
     <<Doc(GoodWithDefectReport)>>,
     <<Doc(NoFlagReport)>>,
     <<Junk>>}

InspectOutcomes == {MissingFile, ApiError} \cup {Answer(t) : t \in InspectTexts}
InspectBase64Outcomes == {ApiError} \cup {Answer(t) : t \in InspectTexts}

\* the answers the model gives to a patch request
SurgeonTexts ==
    {<<Code("const fixed = 1;", 16)>>,
     <<Fence, Tag("jsx", TRUE, 3), Ws, Code("const x = 1;", 12), Ws, Fence>>,
     <<Code("ok", 2)>>}

SurgeryOutcomes == {ApiError} \cup {Answer(t) : t \in SurgeonTexts}

\* the content of the component file before the heal
OriginalCode == JText(<<Code("const broken = 0;", 17)>>)

\* ------------------------------------------------------------------------
\* The file system
\* ------------------------------------------------------------------------
PathChars == {"a", Dot, Slash}
CodePaths == SeqsUpTo(PathChars, MaxPathLen)

\* a path that can name a regular file
IsFilePath(p) ==
    /\ p # <<>>
    /\ p[Len(p)] # Slash
    /\ LastSegment(p) \notin {<<Dot>>, <<Dot, Dot>>}

\* The file a path names is its normalized form; it and the preview path are
\* tabulated once over the paths of the model.
FileOfCodePath == [p \in CodePaths |-> normalize(p)]
PreviewPath == [p \in CodePaths |-> PreviewPathOf(p)]
FileOfPreviewPath == [p \in CodePaths |-> normalize(PreviewPathOf(p))]

EmptyDisk == <<>>
\* fs.existsSync / a successful read of the file
FileExists(d, file) == file \in DOMAIN d
\* fs.readFileSync(p, "utf8")
ReadFile(d, file) == d[file]
\* fs.writeFileSync(p, content)
WriteFile(d, file, content) == (file :> content) @@ d

\* ------------------------------------------------------------------------
\* runFlowState (the heal orchestrator)
\* ------------------------------------------------------------------------
Runs == {1, 2}

NoCall == [fn |-> "none"]

\* orchestrator 6183-6190
InitialResult ==
    [success |-> FALSE,
     iterations |-> <<>>,
     finalCode |-> JNull,
     previewPath |-> JNull,
     assetPrompt |-> JNull,
     summary |-> [fmt |-> "", val |-> ""]]

\* orchestrator 6199-6204
NewIterResult(iteration) ==
    [iteration |-> iteration, inspection |-> JNull, surgery |-> JNull, verified |-> FALSE]

IdleRun ==
    [pc |-> "off", iteration |-> 0, currentCode |-> JNull, iterResult |-> JNull,
     inspection |-> JNull, surgery |-> JNull,
     result |-> InitialResult, call |-> NoCall, inspectCalls |-> 0, patchCalls |-> 0,
     modelCalls |-> 0]

IdleOpts == [codePath |-> <<>>, autoApply |-> FALSE, verify |-> FALSE, maxIterations |-> 0]

\* a loop test that is off by one
LoopGuard_OffByOne(iteration, maxIterations) == iteration <= maxIterations

\* `while (iteration < maxIterations)`, orchestrator 6195
LoopGuard(iteration, maxIterations) == iteration < maxIterations

\* a loop that re-inspects when verify is set
BreaksAfterPatch_OnlyWithoutVerify(verify) == IF ~verify THEN TRUE ELSE FALSE

\* a loop that always runs to maxIterations
BreaksAfterPatch_Never(verify) == FALSE

\* orchestrator 6257-6268: both the verify=false and the verify=true branch break
BreaksAfterPatch(verify) == IF ~verify THEN TRUE ELSE TRUE

\* a failure test that looks at the data instead of the success flag
InspectionFailed_NoData(inspection) == inspection.data = JNull

\* `!inspection.success`, orchestrator 6210 and 6314
InspectionFailed(inspection) == ~inspection.success

\* a looks-good test that also wants an empty defect list
LooksGood_Never(inspection) == FALSE

LooksGood_AndNoDefects(inspection) ==
    Truthy(inspection.data.looks_good) /\ Len(inspection.data.visual_defects) = 0

\* `inspection.data.looks_good`, orchestrator 6220 and 6318
LooksGood(inspection) == Truthy(inspection.data.looks_good)

\* `result.iterations[0]?.inspection?.visual_defects?.length || 0`, orchestrator 6288
FirstDefectCount(iterations) ==
    IF Len(iterations) = 0 THEN 0
    ELSE IF "visual_defects" \in DOMAIN iterations[1].inspection
    THEN Len(iterations[1].inspection.visual_defects) ELSE 0

\* the k-th answer of a scripted service: the recorded one, or a new one that
\* is recorded
Scripted(script, k, o) ==
    IF k <= Len(script) THEN o = script[k] ELSE TRUE
Record(script, k, o) ==
    IF k <= Len(script) THEN script ELSE Append(script, o)

\* the top of the loop body up to `await inspect(screenshotPath)`, orchestrator 6196-6208
IssueInspect(st) ==
    [st EXCEPT !.iteration = @ + 1,
               !.iterResult = NewIterResult(st.iteration + 1),
               !.inspection = JNull,
               !.surgery = JNull,
               !.call = [fn |-> "inspect"],
               !.inspectCalls = @ + 1,
               !.pc = "awaitInspect"]

\* after the loop, orchestrator 6271-6294: the state, the disk and the writes
FinalState(st, o) ==
    [st EXCEPT !.result = [@ EXCEPT !.success = TRUE,
                                    !.finalCode = st.currentCode,
                                    !.previewPath = [t |-> "path", v |-> PreviewPath[o.codePath]],
                                    !.summary = [fmt |-> "Fixed %d defects.",
                                                 val |-> FirstDefectCount(st.result.iterations)]],
               !.call = NoCall,
               !.pc = "done"]
FinalDisk(d, st, o) ==
    LET withPreview == WriteFile(d, FileOfPreviewPath[o.codePath], st.currentCode) IN
    IF o.autoApply THEN WriteFile(withPreview, FileOfCodePath[o.codePath], st.currentCode)
    ELSE withPreview
FinalWrites(w, st, o) ==
    LET withPreview == Append(w, [path |-> PreviewPath[o.codePath], content |-> st.currentCode]) IN
    IF o.autoApply THEN Append(withPreview, [path |-> o.codePath, content |-> st.currentCode])
    ELSE withPreview

\* the file codePath names
CodeFile(r) == FileOfCodePath[opts[r].codePath]

\* fs.readFileSync(codePath) raises: the invocation rejects, orchestrator 6192
StartThrows(r) ==
    /\ run[r].pc = "ready"
    /\ ~FileExists(disk[r], CodeFile(r))
    /\ run' = [run EXCEPT ![r].pc = "threw"]
    /\ UNCHANGED <<frontVars, parseVars, patchVars, ledgerVars, apiVars, opts, disk, disk0, writes, inspScript, surgScript>>

\* orchestrator 6192-6208: read the file, enter the loop, issue the first inspection
StartInspect(r) ==
    /\ run[r].pc = "ready"
    /\ FileExists(disk[r], CodeFile(r))
    /\ LoopGuard(0, opts[r].maxIterations)
    /\ run' = [run EXCEPT ![r] =
                 IssueInspect([@ EXCEPT !.currentCode = ReadFile(disk[r], CodeFile(r))])]
    /\ UNCHANGED <<frontVars, parseVars, patchVars, ledgerVars, apiVars, opts, disk, disk0, writes, inspScript, surgScript>>

\* orchestrator 6192-6195, 6271-6294: the loop body is never entered
StartNoLoop(r) ==
    /\ run[r].pc = "ready"
    /\ FileExists(disk[r], CodeFile(r))
    /\ ~LoopGuard(0, opts[r].maxIterations)
    /\ LET st == [run[r] EXCEPT !.currentCode = ReadFile(disk[r], CodeFile(r))] IN
         /\ run' = [run EXCEPT ![r] = FinalState(st, opts[r])]
         /\ disk' = [disk EXCEPT ![r] = FinalDisk(@, st, opts[r])]
         /\ writes' = [writes EXCEPT ![r] = FinalWrites(@, st, opts[r])]
    /\ UNCHANGED <<frontVars, parseVars, patchVars, ledgerVars, apiVars, opts, disk0, inspScript, surgScript>>

\* the inspection returns with success=false, orchestrator 6210-6215
InspectFailed(r) ==
    /\ run[r].pc = "awaitInspect"
    /\ \E o \in InspectOutcomes :
         /\ Scripted(inspScript, run[r].inspectCalls, o)
         /\ inspScript' = Record(inspScript, run[r].inspectCalls, o)
         /\ LET inspection == inspect(o)
                st == run[r]
                iterResult == [st.iterResult EXCEPT !.inspection = [error |-> inspection.error]]
            IN /\ InspectionFailed(inspection)
               /\ run' = [run EXCEPT ![r] =
                            [st EXCEPT !.inspection = inspection,
                                       !.iterResult = iterResult,
                                       !.result = [@ EXCEPT
                                           !.iterations = Append(@, iterResult),
                                           !.summary = [fmt |-> "Inspection failed: %s",
                                                        val |-> inspection.error]],
                                       !.modelCalls = IF o.k = "missingFile" THEN @ ELSE @ + 1,
                                       !.call = NoCall,
                                       !.pc = "done"]]
    /\ UNCHANGED <<frontVars, parseVars, patchVars, ledgerVars, apiVars, opts, disk, disk0, writes, surgScript>>

\* the inspection reports looks_good, orchestrator 6217-6229
InspectLooksGood(r) ==
    /\ run[r].pc = "awaitInspect"
    /\ \E o \in InspectOutcomes :
         /\ Scripted(inspScript, run[r].inspectCalls, o)
         /\ inspScript' = Record(inspScript, run[r].inspectCalls, o)
         /\ LET inspection == inspect(o)
                st == run[r]
                iterResult == [st.iterResult EXCEPT !.inspection = inspection.data]
            IN /\ ~InspectionFailed(inspection)
               /\ LooksGood(inspection)
               /\ run' = [run EXCEPT ![r] =
                            [st EXCEPT !.inspection = inspection,
                                       !.iterResult = iterResult,
                                       !.result = [@ EXCEPT
                                           !.success = TRUE,
                                           !.finalCode = st.currentCode,
                                           !.summary =
                                               IF st.iteration = 1
                                               THEN [fmt |-> "No defects detected - UI passed inspection.",
                                                     val |-> 0]
                                               ELSE [fmt |-> "Fixed after %d iteration(s).",
                                                     val |-> st.iteration - 1],
                                           !.iterations = Append(@, iterResult)],
                                       !.modelCalls = @ + 1,
                                       !.call = NoCall,
                                       !.pc = "done"]]
    /\ UNCHANGED <<frontVars, parseVars, patchVars, ledgerVars, apiVars, opts, disk, disk0, writes, surgScript>>

\* the inspection reports defects: the patch is requested, orchestrator 6217-6240
InspectFoundDefects(r) ==
    /\ run[r].pc = "awaitInspect"
    /\ \E o \in InspectOutcomes :
         /\ Scripted(inspScript, run[r].inspectCalls, o)
         /\ inspScript' = Record(inspScript, run[r].inspectCalls, o)
         /\ LET inspection == inspect(o)
                st == run[r]
            IN /\ ~InspectionFailed(inspection)
               /\ ~LooksGood(inspection)
               /\ run' = [run EXCEPT ![r] =
                            [st EXCEPT !.inspection = inspection,
                                       !.iterResult = [@ EXCEPT !.inspection = inspection.data],
                                       !.result = [@ EXCEPT !.assetPrompt =
                                           IF Truthy(inspection.data.needs_asset_generation)
                                           THEN inspection.data.asset_generation_prompt ELSE @],
                                       !.modelCalls = @ + 1,
                                       !.call = [fn |-> "operateOnCode",
                                                 code |-> st.currentCode,
                                                 defects |-> inspection.data.visual_defects],
                                       !.patchCalls = @ + 1,
                                       !.pc = "awaitSurgery"]]
    /\ UNCHANGED <<frontVars, parseVars, patchVars, ledgerVars, apiVars, opts, disk, disk0, writes, surgScript>>

\* the answer of the patch call in flight: fixed when no model call is made
SurgeryAnswer(r, o) ==
    IF NoDefectsProvided(JArr(run[r].call.defects))
    THEN /\ o = ApiError
         /\ UNCHANGED surgScript
    ELSE /\ Scripted(surgScript, run[r].patchCalls, o)
         /\ surgScript' = Record(surgScript, run[r].patchCalls, o)

\* a failed patch that leaves the loop instead of returning
SurgeryFailed_FallsThrough(r) ==
    /\ run[r].pc = "awaitSurgery"
    /\ \E o \in SurgeryOutcomes :
         /\ SurgeryAnswer(r, o)
         /\ LET surgery == operateOnCode(run[r].call.code, JArr(run[r].call.defects), o)
                iterResult == [run[r].iterResult EXCEPT !.surgery = [error |-> surgery.error]]
                st == [run[r] EXCEPT !.surgery = surgery,
                                     !.iterResult = iterResult,
                                     !.result = [@ EXCEPT !.iterations = Append(@, iterResult)]]
            IN /\ ~surgery.success
               /\ run' = [run EXCEPT ![r] = FinalState(st, opts[r])]
               /\ disk' = [disk EXCEPT ![r] = FinalDisk(@, st, opts[r])]
               /\ writes' = [writes EXCEPT ![r] = FinalWrites(@, st, opts[r])]
    /\ UNCHANGED <<frontVars, parseVars, patchVars, ledgerVars, apiVars, opts, disk0, inspScript>>

\* the patch fails, orchestrator 6242-6247
SurgeryFailed(r) ==
    /\ run[r].pc = "awaitSurgery"
    /\ \E o \in SurgeryOutcomes :
         /\ SurgeryAnswer(r, o)
         /\ LET surgery == operateOnCode(run[r].call.code, JArr(run[r].call.defects), o)
                st == run[r]
                iterResult == [st.iterResult EXCEPT !.surgery = [error |-> surgery.error]]
            IN /\ ~surgery.success
               /\ run' = [run EXCEPT ![r] =
                            [st EXCEPT !.surgery = surgery,
                                       !.iterResult = iterResult,
                                       !.result = [@ EXCEPT
                                           !.iterations = Append(@, iterResult),
                                           !.summary = [fmt |-> "Surgery failed: %s",
                                                        val |-> surgery.error]],
                                       !.modelCalls =
                                           IF NoDefectsProvided(JArr(st.call.defects)) THEN @ ELSE @ + 1,
                                       !.call = NoCall,
                                       !.pc = "done"]]
    /\ UNCHANGED <<frontVars, parseVars, patchVars, ledgerVars, apiVars, opts, disk, disk0, writes, inspScript>>

\* the patch succeeds, orchestrator 6249-6294: record it, then leave the loop
\* and write the files, or go round the loop again
SurgeryDone(r) ==
    /\ run[r].pc = "awaitSurgery"
    /\ \E o \in SurgeryOutcomes :
         /\ SurgeryAnswer(r, o)
         /\ LET surgery == operateOnCode(run[r].call.code, JArr(run[r].call.defects), o)
                iterResult == [run[r].iterResult EXCEPT
                                  !.surgery = [success |-> TRUE,
                                               codeLength |-> TextLen(surgery.code.v)]]
                st == [run[r] EXCEPT !.surgery = surgery,
                                     !.iterResult = iterResult,
                                     !.currentCode = surgery.code,
                                     !.result = [@ EXCEPT !.iterations = Append(@, iterResult)],
                                     !.modelCalls = @ + 1]
            IN /\ surgery.success
               /\ IF BreaksAfterPatch(opts[r].verify)
                     \/ ~LoopGuard(st.iteration, opts[r].maxIterations)
                  THEN /\ run' = [run EXCEPT ![r] = FinalState(st, opts[r])]
                       /\ disk' = [disk EXCEPT ![r] = FinalDisk(@, st, opts[r])]
                       /\ writes' = [writes EXCEPT ![r] = FinalWrites(@, st, opts[r])]
                  ELSE /\ run' = [run EXCEPT ![r] = IssueInspect(st)]
                       /\ UNCHANGED <<disk, writes>>
    /\ UNCHANGED <<frontVars, parseVars, patchVars, ledgerVars, apiVars, opts, disk0, inspScript>>

\* one invocation of runFlowState with arbitrary options; the component file
\* may be missing
HealOptions ==
    [codePath : CodePaths, autoApply : BOOLEAN, verify : BOOLEAN,
     maxIterations : (-1)..MaxIter]

StartDisk(codePath, exists) ==
    IF exists THEN WriteFile(EmptyDisk, FileOfCodePath[codePath], OriginalCode) ELSE EmptyDisk

HealIdle ==
    /\ opts = [r \in Runs |-> IdleOpts]
    /\ disk = [r \in Runs |-> EmptyDisk]
    /\ disk0 = disk
    /\ run = [r \in Runs |-> IdleRun]
    /\ writes = [r \in Runs |-> <<>>]
    /\ inspScript = <<>>
    /\ surgScript = <<>>

\* nothing has been invoked yet
HealNew ==
    /\ opts = [r \in Runs |-> IdleOpts]
    /\ disk = [r \in Runs |-> EmptyDisk]
    /\ disk0 = disk
    /\ run = [r \in Runs |-> [IdleRun EXCEPT !.pc = "new"]]
    /\ writes = [r \in Runs |-> <<>>]
    /\ inspScript = <<>>
    /\ surgScript = <<>>

\* runFlowState(options) is called once, orchestrator 6165-6172
InvokeHeal ==
    /\ \A r \in Runs : run[r].pc = "new"
    /\ api.pc = "new"
    /\ \E o \in HealOptions, exists \in BOOLEAN :
         /\ exists => IsFilePath(o.codePath)
         /\ opts' = [r \in Runs |-> IF r = 1 THEN o ELSE IdleOpts]
         /\ disk' = [r \in Runs |-> IF r = 1 THEN StartDisk(o.codePath, exists) ELSE EmptyDisk]
         /\ disk0' = disk'
    /\ run' = [r \in Runs |-> IF r = 1 THEN [IdleRun EXCEPT !.pc = "ready"] ELSE IdleRun]
    /\ api' = [api EXCEPT !.pc = "off"]
    /\ UNCHANGED <<frontVars, parseVars, patchVars, ledgerVars, writes, inspScript, surgScript>>

\* runFlowState is called twice on the same inputs and the same scripted
\* services, with verify=true (run 1) and with verify=false (run 2)
InvokeTwins ==
    /\ \A r \in Runs : run[r].pc = "new"
    /\ \E o \in HealOptions, exists \in BOOLEAN :
         /\ exists => IsFilePath(o.codePath)
         /\ o.verify
         /\ opts' = [r \in Runs |-> IF r = 1 THEN o ELSE [o EXCEPT !.verify = FALSE]]
         /\ disk' = [r \in Runs |-> StartDisk(o.codePath, exists)]
         /\ disk0' = disk'
    /\ run' = [r \in Runs |-> [IdleRun EXCEPT !.pc = "ready"]]
    /\ UNCHANGED <<frontVars, parseVars, patchVars, ledgerVars, apiVars, writes, inspScript, surgScript>>

\* ------------------------------------------------------------------------
\* runFlowStateAPI (the pipeline behind POST /api/heal)
\* ------------------------------------------------------------------------
IdleApi ==
    [pc |-> "off", code |-> JNull, inspection |-> JNull, surgery |-> JNull,
     call |-> NoCall, result |-> JNull,
     inspectCalls |-> 0, patchCalls |-> 0, modelCalls |-> 0]

\* orchestrator 6305-6312: the inspection is requested
ApiStart ==
    /\ api.pc = "ready"
    /\ api' = [api EXCEPT !.call = [fn |-> "inspectBase64"],
                          !.inspectCalls = @ + 1,
                          !.pc = "awaitInspect"]
    /\ UNCHANGED <<frontVars, parseVars, patchVars, ledgerVars, healVars>>

\* orchestrator 6314-6316
ApiInspectFailed ==
    /\ api.pc = "awaitInspect"
    /\ \E o \in InspectBase64Outcomes :
         LET inspection == inspectBase64(o) IN
         /\ InspectionFailed(inspection)
         /\ api' = [api EXCEPT !.inspection = inspection,
                               !.result = [success |-> FALSE, error |-> inspection.error,
                                           step |-> "inspect"],
                               !.modelCalls = @ + 1,
                               !.call = NoCall,
                               !.pc = "done"]
    /\ UNCHANGED <<frontVars, parseVars, patchVars, ledgerVars, healVars>>

\* orchestrator 6318-6325
ApiLooksGood ==
    /\ api.pc = "awaitInspect"
    /\ \E o \in InspectBase64Outcomes :
         LET inspection == inspectBase64(o) IN
         /\ ~InspectionFailed(inspection)
         /\ LooksGood(inspection)
         /\ api' = [api EXCEPT !.inspection = inspection,
                               !.result = [success |-> TRUE, looks_good |-> TRUE,
                                           message |-> "No defects detected",
                                           code |-> api.code],
                               !.modelCalls = @ + 1,
                               !.call = NoCall,
                               !.pc = "done"]
    /\ UNCHANGED <<frontVars, parseVars, patchVars, ledgerVars, healVars>>

\* orchestrator 6318-6328: defects were found, the patch is requested
ApiFoundDefects ==
    /\ api.pc = "awaitInspect"
    /\ \E o \in InspectBase64Outcomes :
         LET inspection == inspectBase64(o) IN
         /\ ~InspectionFailed(inspection)
         /\ ~LooksGood(inspection)
         /\ api' = [api EXCEPT !.inspection = inspection,
                               !.call = [fn |-> "operateOnCode", code |-> api.code,
                                         defects |-> inspection.data.visual_defects],
                               !.modelCalls = @ + 1,
                               !.patchCalls = @ + 1,
                               !.pc = "awaitSurgery"]
    /\ UNCHANGED <<frontVars, parseVars, patchVars, ledgerVars, healVars>>

\* orchestrator 6330-6332
ApiSurgeryFailed ==
    /\ api.pc = "awaitSurgery"
    /\ \E o \in SurgeryOutcomes :
         LET surgery == operateOnCode(api.call.code, JArr(api.call.defects), o) IN
         /\ NoDefectsProvided(JArr(api.call.defects)) => o = ApiError
         /\ ~surgery.success
         /\ api' = [api EXCEPT !.surgery = surgery,
                               !.result = [success |-> FALSE, error |-> surgery.error,
                                           step |-> "surgery"],
                               !.modelCalls =
                                   IF NoDefectsProvided(JArr(api.call.defects)) THEN @ ELSE @ + 1,
                               !.call = NoCall,
                               !.pc = "done"]
    /\ UNCHANGED <<frontVars, parseVars, patchVars, ledgerVars, healVars>>

\* orchestrator 6334-6341
ApiSurgeryDone ==
    /\ api.pc = "awaitSurgery"
    /\ \E o \in SurgeryOutcomes :
         LET surgery == operateOnCode(api.call.code, JArr(api.call.defects), o) IN
         /\ surgery.success
         /\ api' = [api EXCEPT !.surgery = surgery,
                               !.result =
                                  [success |-> TRUE, looks_good |-> FALSE,
                                   defects |-> api.inspection.data.visual_defects,
                                   fixedCode |-> surgery.code,
                                   needsAsset |-> api.inspection.data.needs_asset_generation,
                                   assetPrompt |-> api.inspection.data.asset_generation_prompt],
                               !.modelCalls = @ + 1,
                               !.call = NoCall,
                               !.pc = "done"]
    /\ UNCHANGED <<frontVars, parseVars, patchVars, ledgerVars, healVars>>

\* POST /api/heal calls runFlowStateAPI, server.js 68-72
InvokeApi ==
    /\ \A r \in Runs : run[r].pc = "new"
    /\ api.pc = "new"
    /\ api' = [api EXCEPT !.pc = "ready", !.code = OriginalCode]
    /\ run' = [r \in Runs |-> IdleRun]
    /\ UNCHANGED <<frontVars, parseVars, patchVars, ledgerVars, opts, disk, disk0, writes, inspScript, surgScript>>

\* POST /api/heal without a screenshot or without code: the route answers 400
\* and runFlowStateAPI is not called, server.js 56-62; `result` is the body
\* of the response
InvokeApiRejected ==
    /\ \A r \in Runs : run[r].pc = "new"
    /\ api.pc = "new"
    /\ \E screenshot \in {Undefined, JStr(""), JStr("iVBORw0KGgo=")},
          code \in {Undefined, JStr(""), JStr("<button>Sign up</button>")} :
         /\ ~Truthy(screenshot) \/ ~Truthy(code)
         /\ api' = [api EXCEPT !.pc = "rejected",
                               !.code = code,
                               !.result = [error |-> "Missing required fields: screenshot (base64) and code (string)"]]
    /\ run' = [r \in Runs |-> IdleRun]
    /\ UNCHANGED <<frontVars, parseVars, patchVars, ledgerVars, opts, disk, disk0, writes, inspScript, surgScript>>

ApiNew == api = [IdleApi EXCEPT !.pc = "new"]
ApiIdle == api = IdleApi

\* ------------------------------------------------------------------------
\* The usage ledger (lib/usage-tracker.js).  Money is counted in units of
\* 10^-8 dollar, so that every price per token is a whole number.
\* ------------------------------------------------------------------------
ProModel == "gemini-3-pro-preview"
ImageModel == "gemini-2.0-flash-preview-image-generation"
FlashModel == "gemini-2.0-flash"

\* PRICING, usage-tracker.js 13-25: prices per 1K tokens and per image; a
\* price the table does not list is 0, which `||` treats like undefined
PRICING ==
    (ProModel :> [input |-> 25000, output |-> 50000, perImage |-> 0])
    @@ (ImageModel :> [input |-> 0, output |-> 0, perImage |-> 2000000])
    @@ (FlashModel :> [input |-> 10000, output |-> 20000, perImage |-> 0])

\* DEFAULT_BUDGET, usage-tracker.js 28
DEFAULT_BUDGET == 1000000000

\* the cap of the history, usage-tracker.js 135-136
HistoryCap == 100

\* the estimated cost of one image, server.js 373
ImageEstimate == 2000000

\* the number Infinity, which JSON.stringify writes as null
PosInfinity == [t |-> "inf"]

\* a || b on numbers
OrNum(a, b) == IF a # 0 THEN a ELSE b

\* budget - budgetUsed, where budget is a number, Infinity or (after a
\* reload) null, which the subtraction reads as 0
Minus(budget, used) ==
    CASE budget = PosInfinity -> PosInfinity
      [] budget = JNull -> JNum(0 - used)
      [] OTHER -> JNum(budget.v - used)

\* a >= n and a < n for a number or Infinity a
AtLeast(a, n) == a = PosInfinity \/ (a # PosInfinity /\ a.v >= n)
Below(a, n) == a # PosInfinity /\ a.v < n

\* getDefaultData(), usage-tracker.js 47-66, at time t
getDefaultData(t) ==
    [session |-> [startTime |-> t, budget |-> JNum(DEFAULT_BUDGET), budgetUsed |-> 0],
     totals |-> [apiCalls |-> 0, inputTokens |-> 0, outputTokens |-> 0,
                 imagesGenerated |-> 0, estimatedCost |-> 0],
     byModel |-> <<>>,
     byEndpoint |-> <<>>,
     history |-> <<>>,
     assets |-> <<>>]

\* JSON.parse(JSON.stringify(data)): every value of the ledger survives
\* except a non-finite number, which becomes null
JsonRoundTrip(d) ==
    [d EXCEPT !.session.budget = IF @ = PosInfinity THEN JNull ELSE @]

\* load(), usage-tracker.js 35-45
load(file, t) == IF file = NoFile THEN getDefaultData(t) ELSE file

\* `PRICING[model] || PRICING['gemini-2.0-flash']`, usage-tracker.js 91
PricingOf(model) == IF model \in DOMAIN PRICING THEN PRICING[model] ELSE PRICING[FlashModel]

\* a cost that multiplies tokens by the price per 1K without dividing
TrackCost_PerToken(req) ==
    LET pricing == PricingOf(req.model) IN
    IF req.isImage
    THEN OrNum(pricing.perImage, 2000000)
    ELSE req.inputTokens * OrNum(pricing.input, 10000)
         + req.outputTokens * OrNum(pricing.output, 20000)

\* the cost of one call, usage-tracker.js 90-99
TrackCost(req) ==
    LET pricing == PricingOf(req.model) IN
    IF req.isImage
    THEN OrNum(pricing.perImage, 2000000)
    ELSE (req.inputTokens * OrNum(pricing.input, 10000)) \div 1000
         + (req.outputTokens * OrNum(pricing.output, 20000)) \div 1000

\* totals that hold the last cost instead of the sum
TrackTotals_Overwrites(totals, req, cost) ==
    [apiCalls |-> totals.apiCalls + 1,
     inputTokens |-> totals.inputTokens + req.inputTokens,
     outputTokens |-> totals.outputTokens + req.outputTokens,
     imagesGenerated |-> IF req.isImage THEN totals.imagesGenerated + 1
                         ELSE totals.imagesGenerated,
     estimatedCost |-> cost]

\* usage-tracker.js 95, 102-105
TrackTotals(totals, req, cost) ==
    [apiCalls |-> totals.apiCalls + 1,
     inputTokens |-> totals.inputTokens + req.inputTokens,
     outputTokens |-> totals.outputTokens + req.outputTokens,
     imagesGenerated |-> IF req.isImage THEN totals.imagesGenerated + 1
                         ELSE totals.imagesGenerated,
     estimatedCost |-> totals.estimatedCost + cost]

\* usage-tracker.js 109-115
TrackByModel(byModel, req, cost) ==
    LET old == IF req.model \in DOMAIN byModel THEN byModel[req.model]
               ELSE [calls |-> 0, inputTokens |-> 0, outputTokens |-> 0, cost |-> 0]
    IN (req.model :> [calls |-> old.calls + 1,
                      inputTokens |-> old.inputTokens + req.inputTokens,
                      outputTokens |-> old.outputTokens + req.outputTokens,
                      cost |-> old.cost + cost]) @@ byModel

\* usage-tracker.js 118-122
TrackByEndpoint(byEndpoint, req, cost) ==
    LET old == IF req.endpoint \in DOMAIN byEndpoint THEN byEndpoint[req.endpoint]
               ELSE [calls |-> 0, cost |-> 0]
    IN (req.endpoint :> [calls |-> old.calls + 1, cost |-> old.cost + cost]) @@ byEndpoint

\* prompt.substring(0, 100) of a prompt known by its name and its length
Substring100(prompt) == [prompt EXCEPT !.len = IF @ > 100 THEN 100 ELSE @]

\* the history record of one call, usage-tracker.js 125-134
HistoryRecord(req, cost, t) ==
    [timestamp |-> t, model |-> req.model, endpoint |-> req.endpoint,
     inputTokens |-> req.inputTokens, outputTokens |-> req.outputTokens,
     isImage |-> req.isImage, cost |-> cost, prompt |-> Substring100(req.prompt)]

\* array.slice(0, n)
SliceTo(s, n) == IF Len(s) > n THEN SubSeq(s, 1, n) ELSE s

\* a history that keeps the oldest records and drops the new one when full
TrackHistory_KeepsOldest(history, rec) ==
    IF Len(history) >= HistoryCap THEN history ELSE <<rec>> \o history

\* unshift and cap, usage-tracker.js 125-137
TrackHistory(history, rec) ==
    LET grown == <<rec>> \o history IN
    IF Len(grown) > HistoryCap THEN SliceTo(grown, HistoryCap) ELSE grown

\* this.data after track(req) at time t, usage-tracker.js 86-137
TrackData(d, req, t) ==
    LET cost == TrackCost(req) IN
    [d EXCEPT !.totals = TrackTotals(@, req, cost),
              !.session.budgetUsed = @ + cost,
              !.byModel = TrackByModel(@, req, cost),
              !.byEndpoint = TrackByEndpoint(@, req, cost),
              !.history = TrackHistory(@, HistoryRecord(req, cost, t))]

\* the value track returns, usage-tracker.js 141-145
TrackReturn(d, req) ==
    [cost |-> TrackCost(req),
     budgetRemaining |-> Minus(d.session.budget, d.session.budgetUsed),
     overBudget |-> Below(Minus(d.session.budget, d.session.budgetUsed), 0)]

\* checkBudget(estimatedCost), usage-tracker.js 189-196
checkBudget(d, estimatedCost) ==
    LET remaining == Minus(d.session.budget, d.session.budgetUsed) IN
    [allowed |-> AtLeast(remaining, estimatedCost),
     remaining |-> remaining,
     estimatedCost |-> estimatedCost]

\* a reset that keeps the history
ResetData_KeepsHistory(d, t) == [getDefaultData(t) EXCEPT !.history = d.history]

\* this.data after resetSession() at time t, usage-tracker.js 209-210
ResetData(d, t) == getDefaultData(t)

\* save(), usage-tracker.js 68-74: the file holds the serialized ledger
\* unless fs.writeFileSync throws, which save() swallows
Saved(d) == \E ok \in BOOLEAN : usageFile' = IF ok THEN JsonRoundTrip(d) ELSE usageFile

\* what has happened to the ledger since it was last loaded or reset
Remember(req, ret, t) == tracked' = Append(tracked, [req |-> req, ret |-> ret, time |-> t])
Forget(d) == since' = d /\ tracked' = <<>>
\* the last operation on the ledger, its argument and the ledger before it
Did(op, arg) == last' = [op |-> op, arg |-> arg, before |-> data]

\* the calls of track() this model makes
Prompt(name, len) == [s |-> name, len |-> len]
TrackParams(model, endpoint, inTok, outTok, isImage, prompt) ==
    [model |-> model, endpoint |-> endpoint, inputTokens |-> inTok,
     outputTokens |-> outTok, isImage |-> isImage, prompt |-> prompt]
ImageTrack(prompt) == TrackParams(ImageModel, "/api/generate-asset", 0, 0, TRUE, prompt)
TrackRequests ==
    {TrackParams(ProModel, "/api/heal", 1000, 500, FALSE, Prompt("fix the button", 14)),
     TrackParams("gemini-1.5-pro", "/api/chat", 2000, 0, FALSE, Prompt("a long question", 150)),
     TrackParams(ProModel, "/api/generate-asset", 1000, 500, TRUE, Prompt("an avatar", 9))}

\* track(req) called directly, usage-tracker.js 86-146
Track(req) ==
    LET d == TrackData(data, req, now) IN
    /\ data' = d
    /\ Saved(d)
    /\ now' = now + 1
    /\ Remember(req, TrackReturn(d, req), now)
    /\ Did("track", req)
    /\ UNCHANGED <<since, reqs>>
    /\ UNCHANGED <<frontVars, parseVars, healVars, apiVars, patchVars>>

TrackCall == \E req \in TrackRequests : now < MaxTime /\ Track(req)

\* POST /api/save-asset: trackAsset, usage-tracker.js 151-160
SaveAsset ==
    /\ now < MaxTime
    /\ LET d == [data EXCEPT !.assets =
                    <<[timestamp |-> now, filename |-> "asset.png",
                       prompt |-> "No prompt", model |-> ImageModel,
                       path |-> "generated-assets/asset.png"]>> \o @]
       IN data' = d /\ Saved(d)
    /\ Did("trackAsset", JStr("asset.png"))
    /\ now' = now + 1
    /\ UNCHANGED <<since, tracked, reqs>>
    /\ UNCHANGED <<frontVars, parseVars, healVars, apiVars, patchVars>>

\* the amounts POST /api/usage/budget lets through (a number above 0),
\* server.js 547-550: 0.01, 0.03 and 1e999, which JSON.parse reads as Infinity
BudgetAmounts ==
    {JNum(1000000), JNum(3000000), PosInfinity,
     JNum(0), JNum(0 - 1000000), JStr("5"), Undefined}

BudgetAmountValid_AcceptsZero(amount) ==
    amount = PosInfinity \/ (amount.t = "num" /\ amount.v >= 0)

\* the route's check, server.js 548: typeof amount !== 'number' || amount <= 0
BudgetAmountValid(amount) ==
    amount = PosInfinity \/ (amount.t = "num" /\ amount.v > 0)

\* POST /api/usage/budget with an accepted amount: server.js 545-556,
\* setBudget, usage-tracker.js 201-204
SetBudget ==
    /\ now < MaxTime
    /\ \E amount \in BudgetAmounts :
         LET d == [data EXCEPT !.session.budget = amount] IN
         /\ BudgetAmountValid(amount)
         /\ data.session.budget # amount
         /\ data' = d
         /\ Saved(d)
         /\ Did("setBudget", amount)
    /\ now' = now + 1
    /\ UNCHANGED <<since, tracked, reqs>>
    /\ UNCHANGED <<frontVars, parseVars, healVars, apiVars, patchVars>>

\* POST /api/usage/budget answered 400 "Invalid budget amount": server.js 548-550
SetBudgetRejected ==
    /\ now < MaxTime
    /\ \E amount \in BudgetAmounts :
         /\ ~BudgetAmountValid(amount)
         /\ Did("setBudgetRejected", amount)
    /\ now' = now + 1
    /\ UNCHANGED <<data, usageFile, since, tracked, reqs>>
    /\ UNCHANGED <<frontVars, parseVars, healVars, apiVars, patchVars>>

\* POST /api/usage/reset: resetSession, usage-tracker.js 209-212
ResetUsage ==
    /\ now < MaxTime
    /\ LET d == ResetData(data, now) IN
         /\ data' = d
         /\ Saved(d)
         /\ Forget(d)
    /\ Did("resetSession", JNull)
    /\ now' = now + 1
    /\ UNCHANGED reqs
    /\ UNCHANGED <<frontVars, parseVars, healVars, apiVars, patchVars>>

\* ------------------------------------------------------------------------
\* The asset routes of the server (server.js 358-462): each request is a
\* handler that runs up to its await, and continues when the Asset
\* Service answers
\* ------------------------------------------------------------------------
Slots == 1..MaxRequests
IdleRequest == [pc |-> "idle"]
AssetPrompt == Prompt("a round avatar", 14)

\* POST /api/generate-asset, server.js 358-380: the budget check fails
GenerateAssetRejected(s) ==
    /\ reqs[s].pc = "idle"
    /\ LET budgetCheck == checkBudget(data, ImageEstimate) IN
         /\ ~budgetCheck.allowed
         /\ reqs' = [reqs EXCEPT ![s] =
                       [pc |-> "done", route |-> "/api/generate-asset",
                        budgetCheck |-> budgetCheck,
                        remainingAtArrival |-> budgetCheck.remaining,
                        modelCalls |-> 0, issuedAt |-> now, status |-> 402,
                        error |-> "Budget exceeded"]]
    /\ UNCHANGED <<data, usageFile, now, since, tracked, last>>
    /\ UNCHANGED <<frontVars, parseVars, healVars, apiVars, patchVars>>

\* server.js 358-382: the budget check passes and generateUIAsset is called
GenerateAssetIssued(s) ==
    /\ reqs[s].pc = "idle"
    /\ LET budgetCheck == checkBudget(data, ImageEstimate) IN
         /\ budgetCheck.allowed
         /\ reqs' = [reqs EXCEPT ![s] =
                       [pc |-> "await", route |-> "/api/generate-asset",
                        budgetCheck |-> budgetCheck,
                        remainingAtArrival |-> budgetCheck.remaining,
                        modelCalls |-> 1, issuedAt |-> now, status |-> 0, error |-> ""]]
    /\ UNCHANGED <<data, usageFile, now, since, tracked, last>>
    /\ UNCHANGED <<frontVars, parseVars, healVars, apiVars, patchVars>>

\* POST /api/generate-asset-file, server.js 421-444: generateUIAsset is called
GenerateAssetFileIssued(s) ==
    /\ reqs[s].pc = "idle"
    /\ reqs' = [reqs EXCEPT ![s] =
                  [pc |-> "await", route |-> "/api/generate-asset-file",
                   budgetCheck |-> JNull,
                   remainingAtArrival |-> Minus(data.session.budget, data.session.budgetUsed),
                   modelCalls |-> 1, issuedAt |-> now, status |-> 0, error |-> ""]]
    /\ UNCHANGED <<data, usageFile, now, since, tracked, last>>
    /\ UNCHANGED <<frontVars, parseVars, healVars, apiVars, patchVars>>

\* the Asset Service fails, server.js 404-409 and 452-457
AssetFailed(s) ==
    /\ reqs[s].pc = "await"
    /\ reqs' = [reqs EXCEPT ![s] = [@ EXCEPT !.pc = "done", !.status = 500,
                                              !.error = "Generation failed"]]
    /\ UNCHANGED <<data, usageFile, now, since, tracked, last>>
    /\ UNCHANGED <<frontVars, parseVars, healVars, apiVars, patchVars>>

\* the image arrives and the call is tracked, server.js 384-403
GenerateAssetDone(s) ==
    /\ reqs[s].pc = "await"
    /\ reqs[s].route = "/api/generate-asset"
    /\ now < MaxTime
    /\ LET req == ImageTrack(AssetPrompt)
           d == TrackData(data, req, now)
       IN /\ data' = d
          /\ Saved(d)
          /\ Remember(req, TrackReturn(d, req), now)
          /\ Did("track", req)
    /\ now' = now + 1
    /\ reqs' = [reqs EXCEPT ![s] = [@ EXCEPT !.pc = "done", !.status = 200]]
    /\ UNCHANGED since
    /\ UNCHANGED <<frontVars, parseVars, healVars, apiVars, patchVars>>

\* the image is written to the file and nothing is tracked, server.js 446-451
GenerateAssetFileDone(s) ==
    /\ reqs[s].pc = "await"
    /\ reqs[s].route = "/api/generate-asset-file"
    /\ reqs' = [reqs EXCEPT ![s] = [@ EXCEPT !.pc = "done", !.status = 200]]
    /\ UNCHANGED <<data, usageFile, now, since, tracked, last>>
    /\ UNCHANGED <<frontVars, parseVars, healVars, apiVars, patchVars>>

\* the process exits (POST /api/restart, server.js 665-675, or a crash)
\* and a new one constructs the tracker from the file, usage-tracker.js 31-33;
\* the requests in flight are gone
Restart ==
    /\ now < MaxTime
    /\ LET d == load(usageFile, now) IN
         /\ data' = d
         /\ Forget(d)
    /\ Did("load", JNull)
    /\ now' = now + 1
    /\ reqs' = [s \in Slots |-> IF reqs[s].pc = "await" THEN [reqs[s] EXCEPT !.pc = "lost"]
                                 ELSE reqs[s]]
    /\ UNCHANGED usageFile
    /\ UNCHANGED <<frontVars, parseVars, healVars, apiVars, patchVars>>

\* the tracker of a process that started without a usage file
LedgerNew ==
    /\ data = getDefaultData(0)
    /\ usageFile = NoFile
    /\ now = 1
    /\ since = data
    /\ tracked = <<>>
    /\ last = [op |-> "load", arg |-> JNull, before |-> JNull]
    /\ reqs = [s \in Slots |-> IdleRequest]

\* track() called again and again with one image request
TrackRepeatedly == now < MaxTracks /\ Track(ImageTrack(AssetPrompt))

\* ------------------------------------------------------------------------
\* The Patch Service called directly: one call of parseSurgeonResponse,
\* operate or operateOnCode on arbitrary arguments
\* ------------------------------------------------------------------------
PatchPieces ==
    {Ws, Fence, Tag("jsx", TRUE, 3), Tag("python", FALSE, 6),
     Code("ok", 2), Code("let y = 2", 9), Code("let y = 2;", 10), Code("const x = 1;", 12)}

\* the texts a model may answer with
\* a fenced block inside prose, with a tag of the pattern, another tag or none
FencedReplies ==
    {<<Code("Here is the fix:", 16), Ws, Fence>> \o tag
        \o <<Ws, Code("const x = 1;", 12), Ws, Fence, Ws, Code("Done.", 5)>> :
     tag \in {<<>>, <<Tag("jsx", TRUE, 3)>>, <<Tag("python", FALSE, 6)>>}}

PatchTexts == SeqsUpTo(PatchPieces, MaxPieces) \cup SurgeonTexts \cup FencedReplies

\* the defects argument: missing, null, empty or a list of descriptions
PatchDefects ==
    {Undefined, JNull, JArr(<<>>), JArr(<<JStr("Padding too small")>>),
     JArr(<<JStr("Padding too small"), JStr("Low contrast")>>)}

\* the file at codePath: absent, empty or a component
PatchFiles == {NoFile, JText(<<>>), OriginalCode}

\* the code argument: missing, empty or a component
PatchCodes == {Undefined, JText(<<>>), OriginalCode}

PatchIdle == patch = [fn |-> "none"]

CallParseSurgeon ==
    /\ patch.fn = "none"
    /\ \E text \in PatchTexts :
         patch' = [fn |-> "parseSurgeonResponse", text |-> text,
                   out |-> parseSurgeonResponse(text), modelCalls |-> 0]
    /\ UNCHANGED <<frontVars, parseVars, healVars, apiVars, ledgerVars>>

CallOperate ==
    /\ patch.fn = "none"
    /\ \E file \in PatchFiles, defects \in PatchDefects, o \in SurgeryOutcomes :
         patch' = [fn |-> "operate", file |-> file, defects |-> defects,
                   out |-> operate(file, defects, o),
                   modelCalls |-> operateCalls(file, defects)]
    /\ UNCHANGED <<frontVars, parseVars, healVars, apiVars, ledgerVars>>

CallOperateOnCode ==
    /\ patch.fn = "none"
    /\ \E code \in PatchCodes, defects \in PatchDefects, o \in SurgeryOutcomes :
         patch' = [fn |-> "operateOnCode", code |-> code, defects |-> defects,
                   out |-> operateOnCode(code, defects, o),
                   modelCalls |-> operateOnCodeCalls(code, defects)]
    /\ UNCHANGED <<frontVars, parseVars, healVars, apiVars, ledgerVars>>

\* ------------------------------------------------------------------------
\* Specification of the normalizer: one call on an arbitrary text
\* ------------------------------------------------------------------------
NoOut == [kind |-> "none"]

ParseInit ==
    /\ \/ pText \in BrokenTexts
       \/ \E d \in ScalarDocs : pText \in Wrap(d)
       \/ \E g \in FlagChoices, d \in DefectsChoices, n \in FlagChoices, p \in PromptChoices :
             pText \in Wrap(ReportDoc(g, d, n, p))
    /\ pOut = NoOut

ParseIdle ==
    /\ pText = <<>>
    /\ pOut = NoOut

CallParseInspector ==
    /\ pOut = NoOut
    /\ pOut' = parseInspectorResponse(pText)
    /\ UNCHANGED <<frontVars, pText, healVars, apiVars, patchVars, ledgerVars>>

\* ------------------------------------------------------------------------
\* Overlay: mergeDefects (flowstate-overlay.js)
\* A string whose characters matter is given by its characters.
\* ------------------------------------------------------------------------
KeyLen == 30

JChars(chars) == [t |-> "str", c |-> chars]
IsText(x) == "c" \in DOMAIN x

UpperCase == <<"A", "B", "C", "D", "E", "F", "G", "H", "I", "J", "K", "L", "M",
               "N", "O", "P", "Q", "R", "S", "T", "U", "V", "W", "X", "Y", "Z">>
LowerCase == <<"a", "b", "c", "d", "e", "f", "g", "h", "i", "j", "k", "l", "m",
               "n", "o", "p", "q", "r", "s", "t", "u", "v", "w", "x", "y", "z">>
Lower(ch) ==
    IF \E i \in 1..26 : UpperCase[i] = ch
    THEN LowerCase[CHOOSE i \in 1..26 : UpperCase[i] = ch]
    ELSE ch

ToLowerCase_Identity(chars) == chars

\* String.prototype.toLowerCase
ToLowerCase(chars) == [i \in 1..Len(chars) |-> Lower(chars[i])]

\* String.prototype.substring(0, end)
Substring(chars, end) == SubSeq(chars, 1, IF Len(chars) < end THEN Len(chars) ELSE end)

\* (typeof d === 'string' ? d : d.issue)?.toLowerCase().substring(0, 30)
IssueKey(d) ==
    LET issue == IF IsText(d) THEN d ELSE d.issue IN
    IF ~CanRead(issue) THEN Undefined
    ELSE JChars(Substring(ToLowerCase(issue.c), KeyLen))

\* api.forEach(...), flowstate-overlay.js 3983-3988
RECURSIVE MergeEach(_, _, _)
MergeEach(merged, localIssues, apiDefects) ==
    IF apiDefects = <<>> THEN merged
    ELSE MergeEach(IF IssueKey(Head(apiDefects)) \notin localIssues
                   THEN Append(merged, Head(apiDefects)) ELSE merged,
                   localIssues, Tail(apiDefects))

\* flowstate-overlay.js 3977-3991
mergeDefects(local, apiDefects) ==
    MergeEach(local, {IssueKey(local[i]) : i \in 1..Len(local)}, apiDefects)

Rep(ch, n) == [i \in 1..n |-> ch]

\* issue texts: a short one in two spellings, two long ones that agree on
\* their first 30 characters up to case, one that differs at character 30
IssueTexts ==
    {JChars(<<"L", "o", "w">>), JChars(<<"L", "O", "W">>),
     JChars(Rep("a", KeyLen) \o <<"x">>), JChars(Rep("A", KeyLen) \o <<"y">>),
     JChars(Rep("a", KeyLen - 1) \o <<"x">>)}

\* defects of the local analysis are objects; those of the API are objects
\* or, before normalization, plain strings
LocalDefectChoices == {[source |-> "local", issue |-> i] : i \in IssueTexts}
ApiDefectChoices ==
    {[source |-> "api", issue |-> i] : i \in IssueTexts \cup {Undefined}}
    \cup {JChars(<<"L", "o", "w">>), JChars(Rep("A", KeyLen) \o <<"y">>)}

MergeIdle == merge = [fn |-> "none"]

CallMergeDefects ==
    /\ merge.fn = "none"
    /\ \E local \in SeqsUpTo(LocalDefectChoices, MaxDefects) :
       \E apiDefects \in SeqsUpTo(ApiDefectChoices, MaxDefects) :
         merge' = [fn |-> "mergeDefects", local |-> local, api |-> apiDefects,
                   out |-> mergeDefects(local, apiDefects)]
    /\ UNCHANGED <<backVars, floatVars, routeVars, assetVars, localVars, overlayVars>>

\* mergeDefects(local, local)
CallMergeTwice ==
    /\ merge.fn = "none"
    /\ \E local \in SeqsUpTo(LocalDefectChoices, MaxDefects) :
         merge' = [fn |-> "mergeDefects", local |-> local, api |-> local,
                   out |-> mergeDefects(local, local)]
    /\ UNCHANGED <<backVars, floatVars, routeVars, assetVars, localVars, overlayVars>>


\* ------------------------------------------------------------------------
\* Overlay: the local analysis (detectDesignSystem, mode,
\* analyzeElementLocally).  A CSS value is the list of its lengths, each in
\* tenths of a pixel: "12px 24px" is Css(<<120, 240>>), "7.5px" is Css(<<75>>).
\* ------------------------------------------------------------------------
MaxSamples == 3

Css(lengths) == [t |-> "css", v |-> lengths]
DefaultButtonPadding == Css(<<120, 240>>)
DefaultInputPadding == Css(<<120, 160>>)
DefaultRadius == 8
DefaultFontSize == 16
MinPadding == 8

\* parseInt(value) || otherwise: the integer part of the leading length;
\* NaN (no value) and 0 give `otherwise`
ParseIntOr(value, otherwise) ==
    IF value.t = "css" /\ value.v # <<>> /\ value.v[1] \div 10 # 0
    THEN value.v[1] \div 10 ELSE otherwise

DigitChar == <<"0", "1", "2", "3", "4", "5", "6", "7", "8", "9">>
\* the decimal digits of a natural number, as a template literal prints it
RECURSIVE Digits(_)
Digits(n) ==
    IF n < 10 THEN <<DigitChar[n + 1]>>
    ELSE Digits(n \div 10) \o <<DigitChar[(n % 10) + 1]>>

ButtonPaddingTooSmall ==
    <<"B", "u", "t", "t", "o", "n", " ", "p", "a", "d", "d", "i", "n", "g",
      " ", "t", "o", "o", " ", "s", "m", "a", "l", "l", " ", "(">>
ButtonCornersSharper ==
    <<"B", "u", "t", "t", "o", "n", " ", "c", "o", "r", "n", "e", "r", "s",
      " ", "s", "h", "a", "r", "p", "e", "r", " ", "t", "h", "a", "n", " ",
      "o", "t", "h", "e", "r", " ", "e", "l", "e", "m", "e", "n", "t", "s",
      " ", "(">>
ButtonNarrower ==
    <<"B", "u", "t", "t", "o", "n", " ", "n", "a", "r", "r", "o", "w", "e",
      "r", " ", "t", "h", "a", "n", " ", "f", "o", "r", "m", " ", "i", "n",
      "p", "u", "t", "s", " ", "(">>
LowContrast ==
    <<"L", "o", "w", " ", "c", "o", "n", "t", "r", "a", "s", "t", " ", "b",
      "e", "t", "w", "e", "e", "n", " ", "t", "e", "x", "t", " ", "a", "n",
      "d", " ", "b", "a", "c", "k", "g", "r", "o", "u", "n", "d", " ", "(">>
ButtonTextTooSmall ==
    <<"B", "u", "t", "t", "o", "n", " ", "t", "e", "x", "t", " ", "t", "o",
      "o", " ", "s", "m", "a", "l", "l", " ", "(">>
InputPaddingTooSmall ==
    <<"I", "n", "p", "u", "t", " ", "p", "a", "d", "d", "i", "n", "g", " ",
      "t", "o", "o", " ", "s", "m", "a", "l", "l", " ", "(">>
SpacingInconsistent ==
    <<"S", "p", "a", "c", "i", "n", "g", " ", "i", "n", "c", "o", "n", "s",
      "i", "s", "t", "e", "n", "t", " ", "w", "i", "t", "h", " ", "s", "i",
      "b", "l", "i", "n", "g", "s", " ", "(">>
MissingImage ==
    <<"M", "i", "s", "s", "i", "n", "g", " ", "o", "r", " ", "p", "l", "a",
      "c", "e", "h", "o", "l", "d", "e", "r", " ", "i", "m", "a", "g", "e">>
PxClose ==
    <<"p", "x", ")">>
PxVs ==
    <<"p", "x", " ", "v", "s", " ">>
PxVsAvg ==
    <<"p", "x", " ", "v", "s", " ", "a", "v", "g", " ">>
RatioClose ==
    <<":", "1", ")">>

Count(arr, v) == Cardinality({i \in 1..Len(arr) : arr[i] = v})
FirstIndexOf(arr, v) == MinOf({i \in 1..Len(arr) : arr[i] = v})

\* mode, flowstate-overlay.js 3289-3294: the most frequent value; the sort is
\* stable, so among equally frequent values the one sampled first
mode(arr) ==
    IF arr = <<>> THEN JNull
    ELSE arr[CHOOSE i \in 1..Len(arr) :
               /\ i = FirstIndexOf(arr, arr[i])
               /\ \A j \in 1..Len(arr) :
                    \/ Count(arr, arr[j]) < Count(arr, arr[i])
                    \/ /\ Count(arr, arr[j]) = Count(arr, arr[i])
                       /\ i <= FirstIndexOf(arr, arr[j])]

\* ds.common of detectDesignSystem, flowstate-overlay.js 3250-3287, for the
\* values sampled on the page
detectDesignSystem(page) ==
    [buttonPadding |-> mode(page.buttonPadding),
     inputPadding |-> mode(page.inputPadding),
     inputRadius |-> mode(page.inputRadius)]

LocalIdText == <<"local-0", "local-1", "local-2", "local-3", "local-4", "local-5", "local-6">>

\* localDefects.push({id: `local-${localDefects.length}`, ...})
Push(localDefects, element, issue, expected, autoFix) ==
    Append(localDefects,
           [id |-> JStr(LocalIdText[Len(localDefects) + 1]),
            element |-> element,
            issue |-> JChars(issue),
            expected |-> expected,
            autoFix |-> autoFix])

\* flowstate-overlay.js 3319
IsButtonLike(el) ==
    el.tag = "button" \/ el.role = JStr("button") \/ el.type = JStr("submit")

\* flowstate-overlay.js 3405
IsInputLike(el) == el.tag \in {"input", "textarea"}

\* contrast.toFixed(1), the luminances being in thousandths
ContrastTenths(hi, lo) == (((hi + 50) * 20) \div (lo + 50) + 1) \div 2

\* the button checks, flowstate-overlay.js 3319-3400
ButtonChecks(el, common, d0) ==
    LET padding == ParseIntOr(el.paddingTop, 0)
        wantPadding == OrElse(common.buttonPadding, DefaultButtonPadding)
        d1 == IF padding < MinPadding
              THEN Push(d0, "button", ButtonPaddingTooSmall \o Digits(padding) \o PxClose,
                        wantPadding, [padding |-> wantPadding])
              ELSE d0
        radius == ParseIntOr(el.borderRadius, 0)
        expectedRadius == ParseIntOr(common.inputRadius, DefaultRadius)
        d2 == IF radius < 4 /\ expectedRadius >= 8
              THEN Push(d1, "button",
                        ButtonCornersSharper \o Digits(radius) \o PxVs
                            \o Digits(expectedRadius) \o PxClose,
                        <<expectedRadius, "px to match design system">>,
                        [borderRadius |-> OrElse(common.inputRadius, Css(<<80>>))])
              ELSE d1
        siblingInputs == SelectSeq(el.siblings, LAMBDA s : s.tagName = "INPUT")
        d3 == IF siblingInputs # <<>> /\ el.width * 10 < siblingInputs[1].width * 9
              THEN Push(d2, "button",
                        ButtonNarrower \o Digits(el.width) \o PxVs
                            \o Digits(siblingInputs[1].width) \o PxClose,
                        "100% width to match inputs", [width |-> "100%"])
              ELSE d2
        hi == IF el.bgLum > el.textLum THEN el.bgLum ELSE el.textLum
        lo == IF el.bgLum > el.textLum THEN el.textLum ELSE el.bgLum
        d4 == IF hi + 50 < 3 * (lo + 50)
              THEN Push(d3, "button",
                        LowContrast \o Digits(ContrastTenths(hi, lo) \div 10) \o <<".">>
                            \o Digits(ContrastTenths(hi, lo) % 10) \o RatioClose,
                        "At least 4.5:1 for WCAG AA",
                        [color |-> IF el.textLum > el.bgLum THEN "#000000" ELSE "#FFFFFF"])
              ELSE d3
        fontSize == ParseIntOr(el.fontSize, DefaultFontSize)
        d5 == IF fontSize < 14
              THEN Push(d4, "button", ButtonTextTooSmall \o Digits(fontSize) \o PxClose,
                        "14-16px minimum for readability", [fontSize |-> Css(<<140>>)])
              ELSE d4
    IN d5

\* the input check, flowstate-overlay.js 3405-3418
InputChecks(el, common, d0) ==
    LET padding == ParseIntOr(el.paddingTop, 0)
        wantPadding == OrElse(common.inputPadding, DefaultInputPadding)
    IN IF padding < MinPadding
       THEN Push(d0, el.tag, InputPaddingTooSmall \o Digits(padding) \o PxClose,
                 wantPadding, [padding |-> wantPadding])
       ELSE d0

RECURSIVE SumMargins(_)
SumMargins(sibs) ==
    IF sibs = <<>> THEN 0
    ELSE ParseIntOr(Head(sibs).marginBottom, 0) + SumMargins(Tail(sibs))

Abs(x) == IF x < 0 THEN 0 - x ELSE x

\* the spacing check, flowstate-overlay.js 3423-3438
SpacingChecks(el, d0) ==
    LET sibs == SubSeq(el.siblings, 1, IF Len(el.siblings) < 5 THEN Len(el.siblings) ELSE 5)
        n == Len(sibs)
        elMargin == ParseIntOr(el.marginBottom, 0)
        total == SumMargins(sibs)
        rounded == (2 * total + n) \div (2 * n)
    IN IF Abs(elMargin * n - total) > 8 * n /\ total > 0
       THEN Push(d0, el.tag,
                 SpacingInconsistent \o Digits(elMargin) \o PxVsAvg \o Digits(rounded) \o PxClose,
                 <<rounded, "px margin-bottom">>, [marginBottom |-> Css(<<rounded * 10>>)])
       ELSE d0

\* the image check, flowstate-overlay.js 3443-3455
ImageChecks(el, d0) ==
    IF ~Truthy(el.src) \/ el.placeholder \/ el.naturalWidth = 0
    THEN Push(d0, "img", MissingImage, "Actual image asset", Undefined)
    ELSE d0

\* flowstate-overlay.js 3300-3458
analyzeElementLocally(el, common) ==
    LET d1 == IF IsButtonLike(el) THEN ButtonChecks(el, common, <<>>) ELSE <<>>
        d2 == IF IsInputLike(el) THEN InputChecks(el, common, d1) ELSE d1
        d3 == IF el.siblings # <<>> THEN SpacingChecks(el, d2) ELSE d2
        d4 == IF el.tag = "img" THEN ImageChecks(el, d3) ELSE d3
    IN d4

\* the elements analysed: tag, role attribute and type property
ElementKinds ==
    {[tag |-> "button", type |-> JStr("submit")], [tag |-> "button", type |-> JStr("button")],
     [tag |-> "input", type |-> JStr("submit")], [tag |-> "input", type |-> JStr("text")],
     [tag |-> "div", type |-> Undefined], [tag |-> "img", type |-> Undefined]}
SiblingChoices ==
    {<<>>,
     <<[tagName |-> "INPUT", width |-> 300, marginBottom |-> Css(<<0>>)]>>,
     <<[tagName |-> "DIV", width |-> 100, marginBottom |-> Css(<<240>>)]>>}
PaddingSamples == {Css(<<40>>), Css(<<120, 240>>)}
Pages ==
    {[buttonPadding |-> b, inputPadding |-> i, inputRadius |-> r] :
        b \in SeqsUpTo(PaddingSamples, MaxSamples),
        i \in {<<>>, <<Css(<<100, 140>>)>>},
        r \in {<<>>, <<Css(<<40>>)>>, <<Css(<<80>>)>>}}

ProbeIdle == probe = [fn |-> "none"]

\* one call of analyzeElementLocally on an element of a page
CallAnalyzeLocally ==
    /\ probe.fn = "none"
    /\ \E kind \in ElementKinds, role \in {JNull, JStr("button")},
          paddingTop \in {Css(<<40>>), Css(<<75>>), Css(<<80>>)},
          borderRadius \in {Css(<<0>>), Css(<<80>>)},
          fontSize \in {Css(<<120>>), Css(<<160>>)},
          lum \in {<<0, 1000>>, <<500, 400>>},
          siblings \in SiblingChoices,
          page \in Pages :
         LET el == [tag |-> kind.tag, role |-> role, type |-> kind.type,
                    paddingTop |-> paddingTop, borderRadius |-> borderRadius,
                    fontSize |-> fontSize, bgLum |-> lum[1], textLum |-> lum[2],
                    width |-> 200, marginBottom |-> Css(<<0>>), siblings |-> siblings,
                    src |-> JStr("hero.png"), placeholder |-> FALSE, naturalWidth |-> 640]
         IN probe' = [fn |-> "analyzeElementLocally", el |-> el, page |-> page,
                      out |-> analyzeElementLocally(el, detectDesignSystem(page))]
    /\ UNCHANGED <<backVars, floatVars, routeVars, assetVars, mergeVars, overlayVars>>

\* ------------------------------------------------------------------------
\* Overlay: element selection, analysis, quick fix, manual edit, propagation,
\* generated images and undo (flowstate-overlay.js).  Every handler runs to
\* its next await in one step; an analysis waiting for /api/inspect is an
\* entry of `pending`.
\* ------------------------------------------------------------------------
MaxGestures == 4

\* the page: two buttons and an image, in document order
PageElements == {"login", "signup", "hero"}
PageButtons == <<"login", "signup">>
PageTag(el) == IF el = "hero" THEN "img" ELSE "button"
\* padding given by the page's style sheet
PagePadding(el) == IF el = "signup" THEN Css(<<40>>) ELSE Css(<<120, 240>>)
\* findSimilarElements(el), flowstate-overlay.js 4315-4349, on this page
SimilarTo(el) ==
    CASE el = "login" -> <<"signup">>
      [] el = "signup" -> <<"login">>
      [] OTHER -> <<>>

\* null where an element is expected
NoElement == "null"

Unset == JStr("")
StyleProps == {"padding", "borderRadius", "width", "color", "fontSize",
               "marginBottom", "backgroundImage"}
\* el.style of an element, and el.src with it
InitialStyle(el) ==
    [p \in StyleProps \cup {"src"} |->
        IF p = "src" /\ el = "hero" THEN JStr("hero.png") ELSE Unset]

\* getComputedStyle(el).padding: the inline value wins over the style sheet
ComputedPadding(style, el) ==
    IF style[el]["padding"] = Unset THEN PagePadding(el) ELSE style[el]["padding"]

\* what analyzeElementLocally reads of an element
Snapshot(style, el) ==
    [tag |-> PageTag(el), role |-> JNull,
     type |-> IF PageTag(el) = "button" THEN JStr("submit") ELSE Undefined,
     paddingTop |-> ComputedPadding(style, el), borderRadius |-> Css(<<80>>),
     fontSize |-> Css(<<160>>), bgLum |-> 0, textLum |-> 1000,
     width |-> 200, marginBottom |-> Css(<<0>>), siblings |-> <<>>,
     src |-> style[el]["src"], placeholder |-> FALSE, naturalWidth |-> 640]

\* pageDesignSystem: detected at the first analysis, from the buttons of the page
PageDesignSystem ==
    detectDesignSystem([buttonPadding |-> [i \in 1..Len(PageButtons) |-> PagePadding(PageButtons[i])],
                        inputPadding |-> <<>>, inputRadius |-> <<>>])

\* flowstate-overlay.js 3616-3630
isImageElement(style, el) ==
    PageTag(el) = "img" \/ style[el]["backgroundImage"] # Unset

\* el.outerHTML.substring(0, 200): the element with its style attribute
CacheKey(style, el) == <<el, style[el]>>
CacheHas(cache, key) == \E e \in cache : e.key = key
CacheGet(cache, key) == (CHOOSE e \in cache : e.key = key).defects
CacheSet(cache, key, list) == {e \in cache : e.key # key} \cup {[key |-> key, defects |-> list]}

\* renderDefects(list, ...), flowstate-overlay.js 3993-4160; `of` remembers
\* the element the list was computed for, `used` the quick-fix buttons
\* already pressed
Rendered(list, el) == [kind |-> "defects", list |-> list, of |-> el, used |-> {}]
HasAutoFix(defect) == "autoFix" \in DOMAIN defect /\ defect.autoFix # Undefined

\* Object.assign(el.style, styles)
Assign(style, el, styles) ==
    [style EXCEPT ![el] = [p \in DOMAIN @ |-> IF p \in DOMAIN styles THEN styles[p] ELSE @[p]]]
PreviousStyles(style, el, styles) == [p \in DOMAIN styles |-> style[el][p]]

Pop(s) == SubSeq(s, 1, Len(s) - 1)
Top(s) == s[Len(s)]

\* the state before a change, remembered for each entry of the undo stack
Snap == [style |-> elStyle, changes |-> allChanges]

\* the answers of POST /api/inspect as the overlay reads them
InspectReplies ==
    {[success |-> FALSE, error |-> "Inspector analysis failed"],
     [success |-> TRUE, data |-> [visual_defects |-> <<>>]],
     [success |-> TRUE,
      data |-> [visual_defects |-> <<[source |-> "api", issue |-> JChars(<<"L", "o", "w">>)]>>]]}

ManualStyles == {[padding |-> Css(<<160, 320>>)], [padding |-> Css(<<40>>)]}
NoEdit == [similar |-> <<>>, styles |-> JNull]

\* one more click or key press of the user
Gesture == gestures < MaxGestures /\ gestures' = gestures + 1

OverlayNew ==
    /\ selectedElement = NoElement
    /\ currentDefects = <<>>
    /\ defectsOf = NoElement
    /\ panel = [kind |-> "idle"]
    /\ pending = {}
    /\ analysisCache = {}
    /\ elStyle = [el \in PageElements |-> InitialStyle(el)]
    /\ undoStack = <<>>
    /\ allChanges = <<>>
    /\ edit = NoEdit
    /\ gestures = 0
    /\ hist = <<>>

\* handleClick 3208-3244 and analyzeElement 3477-3503 up to its first await
HandleClick(el) ==
    /\ Gesture
    /\ selectedElement' = el
    /\ LET cacheKey == CacheKey(elStyle, el)
           localDefects == analyzeElementLocally(Snapshot(elStyle, el), PageDesignSystem)
       IN IF isImageElement(elStyle, el)
          THEN /\ panel' = [kind |-> "image", of |-> el]
               /\ UNCHANGED <<currentDefects, defectsOf, pending>>
          ELSE IF CacheHas(analysisCache, cacheKey)
          THEN /\ currentDefects' = CacheGet(analysisCache, cacheKey)
               /\ defectsOf' = el
               /\ panel' = Rendered(currentDefects', el)
               /\ UNCHANGED pending
          ELSE /\ currentDefects' = localDefects
               /\ defectsOf' = el
               /\ panel' = Rendered(localDefects, el)
               /\ pending' = pending \cup {[click |-> gestures', el |-> el,
                                            localDefects |-> localDefects,
                                            cacheKey |-> cacheKey]}
    /\ UNCHANGED <<analysisCache, elStyle, undoStack, allChanges, edit, hist>>
    /\ UNCHANGED <<backVars, floatVars, routeVars, assetVars, mergeVars, localVars>>

\* analyzeElement 3566-3609: the answer of /api/inspect arrives
InspectResponse(click) ==
    \E a \in pending :
    /\ a.click = click
    /\ pending' = pending \ {a}
    /\ \E result \in InspectReplies :
         IF result.success /\ Len(result.data.visual_defects) > 0
         THEN /\ currentDefects' = mergeDefects(a.localDefects, result.data.visual_defects)
              /\ defectsOf' = a.el
              /\ analysisCache' = CacheSet(analysisCache, a.cacheKey, currentDefects')
              /\ panel' = Rendered(currentDefects', a.el)
         ELSE UNCHANGED <<currentDefects, defectsOf, analysisCache, panel>>
    /\ UNCHANGED <<selectedElement, elStyle, undoStack, allChanges, edit, gestures, hist>>
    /\ UNCHANGED <<backVars, floatVars, routeVars, assetVars, mergeVars, localVars>>

\* applyQuickFix, flowstate-overlay.js 4185-4208
applyQuickFix(el, styles) ==
    /\ undoStack' = Append(undoStack, [element |-> el, styles |-> PreviousStyles(elStyle, el, styles)])
    /\ elStyle' = Assign(elStyle, el, styles)
    /\ allChanges' = Append(allChanges, [selector |-> el, styles |-> styles])
    /\ hist' = Append(hist, Snap)

\* the quick-fix listener of a rendered defect, flowstate-overlay.js 4102-4114
QuickFixClicked(idx) ==
    /\ Gesture
    /\ panel.kind = "defects"
    /\ idx \in 1..Len(panel.list)
    /\ HasAutoFix(panel.list[idx])
    /\ idx \notin panel.used
    /\ selectedElement # NoElement
    /\ applyQuickFix(selectedElement, panel.list[idx].autoFix)
    /\ panel' = [panel EXCEPT !.used = @ \cup {idx}]
    /\ UNCHANGED <<selectedElement, currentDefects, defectsOf, pending, analysisCache, edit>>
    /\ UNCHANGED <<backVars, floatVars, routeVars, assetVars, mergeVars, localVars>>

\* applyManualEdit, flowstate-overlay.js 4527-4575, for an edit that changes
\* something; the similar elements were found when the editor opened
ApplyManualEdit ==
    /\ Gesture
    /\ selectedElement # NoElement
    /\ \E styles \in ManualStyles :
         LET changedStyles ==
                 [p \in {p \in DOMAIN styles :
                           styles[p] # (IF p = "padding"
                                        THEN ComputedPadding(elStyle, selectedElement)
                                        ELSE elStyle[selectedElement][p])} |-> styles[p]]
         IN /\ DOMAIN changedStyles # {}
            /\ undoStack' = Append(undoStack,
                                   [element |-> selectedElement,
                                    styles |-> PreviousStyles(elStyle, selectedElement, changedStyles)])
            /\ elStyle' = Assign(elStyle, selectedElement, changedStyles)
            /\ allChanges' = Append(allChanges, [selector |-> selectedElement,
                                                 styles |-> changedStyles, manual |-> TRUE])
            /\ hist' = Append(hist, Snap)
            /\ edit' = IF SimilarTo(selectedElement) # <<>>
                       THEN [similar |-> SimilarTo(selectedElement), styles |-> changedStyles]
                       ELSE NoEdit
    /\ UNCHANGED <<selectedElement, currentDefects, defectsOf, panel, pending, analysisCache>>
    /\ UNCHANGED <<backVars, floatVars, routeVars, assetVars, mergeVars, localVars>>

\* similarElements.forEach(...), flowstate-overlay.js 4380-4399: the stacks,
\* the styles and the remembered states after the elements of `similar`
RECURSIVE PropagateEach(_, _, _)
PropagateEach(similar, styles, st) ==
    IF similar = <<>> THEN st
    ELSE LET el == Head(similar) IN
         PropagateEach(Tail(similar), styles,
             [undo |-> Append(st.undo, [element |-> el,
                                        styles |-> PreviousStyles(st.style, el, styles)]),
              style |-> Assign(st.style, el, styles),
              changes |-> Append(st.changes, [selector |-> el, styles |-> styles,
                                              propagated |-> TRUE]),
              hist |-> Append(st.hist, [style |-> st.style, changes |-> st.changes])])

\* the "apply to similar" button: propagateToSimilar, flowstate-overlay.js 4379-4402
PropagateToSimilar ==
    /\ edit # NoEdit
    /\ Gesture
    /\ LET st == PropagateEach(edit.similar, edit.styles,
                               [undo |-> undoStack, style |-> elStyle,
                                changes |-> allChanges, hist |-> hist])
       IN /\ undoStack' = st.undo
          /\ elStyle' = st.style
          /\ allChanges' = st.changes
          /\ hist' = st.hist
    /\ edit' = NoEdit
    /\ UNCHANGED <<selectedElement, currentDefects, defectsOf, panel, pending, analysisCache>>
    /\ UNCHANGED <<backVars, floatVars, routeVars, assetVars, mergeVars, localVars>>

\* the Apply button of the image panel: applyGeneratedImage, flowstate-overlay.js 3882-3907
ApplyGeneratedImage(el) ==
    /\ Gesture
    /\ panel.kind = "image"
    /\ panel.of = el
    /\ LET property == IF PageTag(el) = "img" THEN "src" ELSE "backgroundImage" IN
       /\ undoStack' = Append(undoStack, [element |-> el, property |-> property,
                                          oldValue |-> elStyle[el][property]])
       /\ elStyle' = [elStyle EXCEPT ![el][property] = JStr("generated.png")]
    /\ hist' = Append(hist, Snap)
    /\ UNCHANGED <<selectedElement, currentDefects, defectsOf, panel, pending, analysisCache,
                   allChanges, edit>>
    /\ UNCHANGED <<backVars, floatVars, routeVars, assetVars, mergeVars, localVars>>

\* undoLastChange, flowstate-overlay.js 4210-4229 (the Undo button and Ctrl+Z)
UndoLastChange ==
    /\ Gesture
    /\ undoStack # <<>>
    /\ LET lastEntry == Top(undoStack) IN
       \* Object.assign(target, undefined) assigns nothing
       elStyle' = IF "styles" \in DOMAIN lastEntry
                  THEN Assign(elStyle, lastEntry.element, lastEntry.styles)
                  ELSE elStyle
    /\ undoStack' = Pop(undoStack)
    /\ allChanges' = IF allChanges = <<>> THEN <<>> ELSE Pop(allChanges)
    /\ hist' = Pop(hist)
    /\ panel' = IF selectedElement # NoElement THEN Rendered(currentDefects, defectsOf) ELSE panel
    /\ UNCHANGED <<selectedElement, currentDefects, defectsOf, pending, analysisCache, edit>>
    /\ UNCHANGED <<backVars, floatVars, routeVars, assetVars, mergeVars, localVars>>

\* ------------------------------------------------------------------------
\* Asset Service: generateAsset (agents/artist.js)
\* ------------------------------------------------------------------------
MaxParts == 3

NoImageData == "No image data in response - check response structure"

\* the parts a model response can hold
TextPart == [text |-> JStr("Here is your image")]
InlinePart(base64) == [inlineData |-> [data |-> base64, mimeType |-> JStr("image/jpeg")]]
FilePart(fileUri) == [fileData |-> [fileUri |-> fileUri, mimeType |-> JStr("image/png")]]
PartChoices ==
    {TextPart, InlinePart(JStr("iVBORw0KGgo=")), InlinePart(JStr("")),
     FilePart(JStr("https://files.example/img-1")), FilePart(Undefined)}

HasPart(part, key) == key \in DOMAIN part

\* the for loop over candidates[0].content.parts, artist.js 43-58: the first
\* inline-image part ends the loop, the first file-reference part ends the call
RECURSIVE ScanParts(_)
ScanParts(parts) ==
    IF parts = <<>> THEN [k |-> "none"]
    ELSE IF HasPart(Head(parts), "inlineData")
    THEN [k |-> "inline", imageData |-> Head(parts).inlineData.data,
          mimeType |-> OrElse(Head(parts).inlineData.mimeType, JStr("image/png"))]
    ELSE IF HasPart(Head(parts), "fileData")
    THEN [k |-> "file", fileUri |-> Head(parts).fileData.fileUri,
          mimeType |-> Head(parts).fileData.mimeType]
    ELSE ScanParts(Tail(parts))

\* Buffer.from(imageData, "base64")
BufferFrom(imageData) == [buffer |-> imageData.v]

\* generateAsset(prompt, {outputPath}), artist.js 17-95, for the answer of
\* model.generateContent: a rejection, or a response with or without parts
generateAsset(outcome, outputPath) ==
    IF outcome.k = "apiError"
    THEN [success |-> FALSE, error |-> "API call failed"]
    ELSE LET scan == IF outcome.k = "parts" THEN ScanParts(outcome.parts) ELSE [k |-> "none"]
             imageData == IF scan.k = "inline" THEN scan.imageData ELSE JNull
         IN IF scan.k = "file"
            THEN [success |-> TRUE, url |-> scan.fileUri, mimeType |-> scan.mimeType]
            ELSE IF ~Truthy(imageData)
            THEN [success |-> FALSE, error |-> NoImageData]
            ELSE IF Truthy(outputPath)
            THEN [success |-> TRUE, image |-> BufferFrom(imageData), path |-> outputPath,
                  mimeType |-> scan.mimeType]
            ELSE [success |-> TRUE, image |-> BufferFrom(imageData), base64 |-> imageData,
                  mimeType |-> scan.mimeType]

AssetOutcomes ==
    {[k |-> "apiError"], [k |-> "noCandidates"]}
    \cup {[k |-> "parts", parts |-> p] : p \in SeqsUpTo(PartChoices, MaxParts)}

AssetIdle == asset = [fn |-> "none"]

\* one call of the Asset Service
CallGenerateAsset ==
    /\ asset.fn = "none"
    /\ \E outcome \in AssetOutcomes,
          outputPath \in {Undefined, JStr("generated-assets/hero.png")} :
         asset' = [fn |-> "generateAsset", outcome |-> outcome, outputPath |-> outputPath,
                   out |-> generateAsset(outcome, outputPath)]
    /\ UNCHANGED <<backVars, floatVars, routeVars, mergeVars, localVars, overlayVars>>

\* ------------------------------------------------------------------------
\* The screenshot routes of the server (server.js 86-135 and 236-276):
\* POST /api/inspect with a screenshot and POST /api/inspect-annotations.
\* Each request writes its screenshot to a temporary file named after
\* Date.now(), has it inspected and removes the file.
\* ------------------------------------------------------------------------
\* the values Date.now() returns while the requests arrive
Times == 1..2

ShotRoutes == {"/api/inspect", "/api/inspect-annotations"}

\* `/tmp/flowstate-inspect-${Date.now()}.png`, server.js 94, and
\* `/tmp/flowstate-annotated-${Date.now()}.png`, server.js 258
TempPath(route, time) ==
    [prefix |-> IF route = "/api/inspect" THEN "flowstate-inspect" ELSE "flowstate-annotated",
     time |-> time]
TempPaths == {TempPath(route, time) : route \in ShotRoutes, time \in Times}

\* the screenshot in the body of the request of slot s
Screenshot(s) == [t |-> "png", of |-> s]

\* the answers of the model to one inspection
ShotOutcomes == {ApiError, Answer(<<Doc(GoodReport)>>), Answer(<<Doc(OneDefectReport)>>)}

ShotsIdle ==
    /\ tmp = [p \in TempPaths |-> NoFile]
    /\ shots = [s \in Slots |-> IdleRequest]

\* Date.now() does not go back
NotBefore(time) == \A q \in Slots : shots[q].pc # "idle" => shots[q].time <= time

\* server.js 92-97 and 257-262, inspector.js 82-108: the file is written,
\* inspect() finds it, reads it and sends the image to the model
ShotArrives(s) ==
    /\ shots[s].pc = "idle"
    /\ \E route \in ShotRoutes, time \in Times :
         LET tempPath == TempPath(route, time)
             written == [tmp EXCEPT ![tempPath] = Screenshot(s)]
         IN /\ NotBefore(time)
            /\ tmp' = written
            /\ shots' = [shots EXCEPT ![s] =
                           [pc |-> "await", route |-> route, time |-> time,
                            tempPath |-> tempPath, image |-> written[tempPath],
                            status |-> 0, body |-> JNull]]
    /\ UNCHANGED <<backVars, floatVars, mergeVars, localVars, overlayVars, assetVars>>

\* server.js 97-102 and 262-273: the inspection returns, the file is
\* removed and the result is the answer
ShotAnswered(s) ==
    /\ shots[s].pc = "await"
    /\ tmp[shots[s].tempPath] # NoFile
    /\ \E o \in ShotOutcomes :
         shots' = [shots EXCEPT ![s] =
                     [@ EXCEPT !.pc = "done", !.status = 200,
                               !.body = [result |-> inspect(o), of |-> shots[s].image]]]
    /\ tmp' = [tmp EXCEPT ![shots[s].tempPath] = NoFile]
    /\ UNCHANGED <<backVars, floatVars, mergeVars, localVars, overlayVars, assetVars>>

\* fs.unlinkSync throws ENOENT: the catch block answers 500 with the
\* message, server.js 131-134 and 273-276
ShotCleanupThrows(s) ==
    /\ shots[s].pc = "await"
    /\ tmp[shots[s].tempPath] = NoFile
    /\ shots' = [shots EXCEPT ![s] =
                   [@ EXCEPT !.pc = "done", !.status = 500,
                             !.body = [error |-> "ENOENT: no such file or directory, unlink"]]]
    /\ UNCHANGED tmp
    /\ UNCHANGED <<backVars, floatVars, mergeVars, localVars, overlayVars, assetVars>>

\* ------------------------------------------------------------------------
\* The usage ledger with its costs as JavaScript numbers.  The ledger above
\* counts money exactly, in units of 1e-8 dollar.  JavaScript keeps a cost
\* as a binary floating-point number and rounds after every operation
\* (round to nearest, ties to even).  Here a number is m * 2^e with a
\* significand m of SigBits bits; SigBits is 53 in JavaScript and smaller
\* here so that the arithmetic stays within 32-bit integers.
\* ------------------------------------------------------------------------
SigBits == 8
MaxCalls == 3

Float(m, e) == [m |-> m, e |-> e]
Zero == Float(0, 0)

\* the number of low bits n has beyond SigBits
RECURSIVE ExtraBits(_)
ExtraBits(n) == IF n < 2^SigBits THEN 0 ELSE 1 + ExtraBits(n \div 2)

\* the floating-point number nearest to n * 2^e, ties to even
RECURSIVE RoundInt(_, _)
RoundInt(n, e) ==
    IF n = 0 THEN Zero
    ELSE IF n < 2^(SigBits - 1) THEN RoundInt(2 * n, e - 1)
    ELSE IF n < 2^SigBits THEN Float(n, e)
    ELSE LET s == ExtraBits(n)
             q == n \div 2^s
             r == n % 2^s
             half == 2^(s - 1)
             up == r > half \/ (r = half /\ q % 2 = 1)
         IN IF ~up THEN Float(q, e + s)
            ELSE IF q + 1 = 2^SigBits THEN Float(2^(SigBits - 1), e + s + 1)
            ELSE Float(q + 1, e + s)

\* a + b
FAdd(a, b) ==
    IF a.m = 0 THEN b
    ELSE IF b.m = 0 THEN a
    ELSE LET lo == IF a.e <= b.e THEN a ELSE b
             hi == IF a.e <= b.e THEN b ELSE a
             shift == hi.e - lo.e
         IN IF shift > SigBits + 1 THEN hi
            ELSE RoundInt(hi.m * 2^shift + lo.m, lo.e)

\* a * b
FMul(a, b) == RoundInt(a.m * b.m, a.e + b.e)

\* a / b for b # 0: the quotient to SigBits + 2 bits and a sticky bit
FDiv(a, b) ==
    IF a.m = 0 THEN Zero
    ELSE LET num == a.m * 2^(SigBits + 2)
             sticky == IF num % b.m = 0 THEN 0 ELSE 1
         IN RoundInt(2 * (num \div b.m) + sticky, a.e - b.e - SigBits - 3)

\* the number an integer count is
FromInt(k) == RoundInt(k, 0)

\* the number a decimal literal num/den is read as
Literal(num, den) ==
    LET scaled == num * 2^24
        sticky == IF scaled % den = 0 THEN 0 ELSE 1
    IN RoundInt(2 * (scaled \div den) + sticky, 0 - 25)

\* a || b
OrFloat(a, b) == IF a.m # 0 THEN a ELSE b

\* PRICING, usage-tracker.js 13-25, with the literals as written there; a
\* price the table does not list is undefined, which `||` treats like 0
PRICING64 ==
    (ProModel :> [input |-> Literal(25, 100000), output |-> Literal(5, 10000), perImage |-> Zero])
    @@ (ImageModel :> [input |-> Zero, output |-> Zero, perImage |-> Literal(2, 100)])
    @@ (FlashModel :> [input |-> Literal(1, 10000), output |-> Literal(2, 10000), perImage |-> Zero])

\* the cost of one call, usage-tracker.js 90-99
TrackCost64(req) ==
    LET pricing == IF req.model \in DOMAIN PRICING64 THEN PRICING64[req.model]
                   ELSE PRICING64[FlashModel]
    IN IF req.isImage
       THEN OrFloat(pricing.perImage, Literal(2, 100))
       ELSE FAdd(FMul(FDiv(FromInt(req.inputTokens), FromInt(1000)),
                      OrFloat(pricing.input, Literal(1, 10000))),
                 FMul(FDiv(FromInt(req.outputTokens), FromInt(1000)),
                      OrFloat(pricing.output, Literal(2, 10000))))

\* getDefaultData(), usage-tracker.js 47-66, without the history
getDefaultData64 ==
    [session |-> [budget |-> FromInt(10), budgetUsed |-> Zero],
     totals |-> [apiCalls |-> 0, inputTokens |-> 0, outputTokens |-> 0,
                 imagesGenerated |-> 0, estimatedCost |-> Zero],
     byModel |-> <<>>,
     byEndpoint |-> <<>>,
     assets |-> 0]

\* a track that forgets the budget
TrackData64_KeepsBudgetUsed(d, req) ==
    LET cost == TrackCost64(req)
        oldModel == IF req.model \in DOMAIN d.byModel THEN d.byModel[req.model]
                    ELSE [calls |-> 0, inputTokens |-> 0, outputTokens |-> 0, cost |-> Zero]
        oldEndpoint == IF req.endpoint \in DOMAIN d.byEndpoint THEN d.byEndpoint[req.endpoint]
                       ELSE [calls |-> 0, cost |-> Zero]
    IN [d EXCEPT
          !.totals = [apiCalls |-> @.apiCalls + 1,
                      inputTokens |-> @.inputTokens + req.inputTokens,
                      outputTokens |-> @.outputTokens + req.outputTokens,
                      imagesGenerated |-> IF req.isImage THEN @.imagesGenerated + 1
                                          ELSE @.imagesGenerated,
                      estimatedCost |-> FAdd(@.estimatedCost, cost)],
          !.byModel = (req.model :> [calls |-> oldModel.calls + 1,
                                     inputTokens |-> oldModel.inputTokens + req.inputTokens,
                                     outputTokens |-> oldModel.outputTokens + req.outputTokens,
                                     cost |-> FAdd(oldModel.cost, cost)]) @@ @,
          !.byEndpoint = (req.endpoint :> [calls |-> oldEndpoint.calls + 1,
                                           cost |-> FAdd(oldEndpoint.cost, cost)]) @@ @]

\* this.data after track(req), usage-tracker.js 86-122
TrackData64(d, req) ==
    LET cost == TrackCost64(req)
        oldModel == IF req.model \in DOMAIN d.byModel THEN d.byModel[req.model]
                    ELSE [calls |-> 0, inputTokens |-> 0, outputTokens |-> 0, cost |-> Zero]
        oldEndpoint == IF req.endpoint \in DOMAIN d.byEndpoint THEN d.byEndpoint[req.endpoint]
                       ELSE [calls |-> 0, cost |-> Zero]
    IN [d EXCEPT
          !.totals = [apiCalls |-> @.apiCalls + 1,
                      inputTokens |-> @.inputTokens + req.inputTokens,
                      outputTokens |-> @.outputTokens + req.outputTokens,
                      imagesGenerated |-> IF req.isImage THEN @.imagesGenerated + 1
                                          ELSE @.imagesGenerated,
                      estimatedCost |-> FAdd(@.estimatedCost, cost)],
          !.session.budgetUsed = FAdd(@, cost),
          !.byModel = (req.model :> [calls |-> oldModel.calls + 1,
                                     inputTokens |-> oldModel.inputTokens + req.inputTokens,
                                     outputTokens |-> oldModel.outputTokens + req.outputTokens,
                                     cost |-> FAdd(oldModel.cost, cost)]) @@ @,
          !.byEndpoint = (req.endpoint :> [calls |-> oldEndpoint.calls + 1,
                                           cost |-> FAdd(oldEndpoint.cost, cost)]) @@ @]

\* the calls of track() on this ledger
Requests64 ==
    {[model |-> ImageModel, endpoint |-> "/api/generate-asset",
      inputTokens |-> 0, outputTokens |-> 0, isImage |-> TRUE],
     [model |-> ProModel, endpoint |-> "/api/heal",
      inputTokens |-> 1000, outputTokens |-> 500, isImage |-> FALSE],
     [model |-> FlashModel, endpoint |-> "/api/chat",
      inputTokens |-> 2000, outputTokens |-> 0, isImage |-> FALSE],
     [model |-> "gemini-1.5-pro", endpoint |-> "/api/chat",
      inputTokens |-> 1000, outputTokens |-> 1000, isImage |-> FALSE]}

Ledger64New ==
    /\ data64 = getDefaultData64
    /\ calls64 = 0

Call64 == calls64 < MaxCalls /\ calls64' = calls64 + 1

\* track(req), usage-tracker.js 86-146
Track64 ==
    /\ Call64
    /\ \E req \in Requests64 : data64' = TrackData64(data64, req)
    /\ UNCHANGED <<backVars, mergeVars, localVars, overlayVars, assetVars, routeVars>>

\* trackAsset, usage-tracker.js 151-160
TrackAsset64 ==
    /\ Call64
    /\ data64' = [data64 EXCEPT !.assets = @ + 1]
    /\ UNCHANGED <<backVars, mergeVars, localVars, overlayVars, assetVars, routeVars>>

\* setBudget(amount), usage-tracker.js 201-204
SetBudget64 ==
    /\ Call64
    /\ \E amount \in {Literal(3, 100), FromInt(5)} :
         data64' = [data64 EXCEPT !.session.budget = amount]
    /\ UNCHANGED <<backVars, mergeVars, localVars, overlayVars, assetVars, routeVars>>

\* resetSession(), usage-tracker.js 209-212
Reset64 ==
    /\ Call64
    /\ data64' = getDefaultData64
    /\ UNCHANGED <<backVars, mergeVars, localVars, overlayVars, assetVars, routeVars>>

FrontIdle ==
    /\ MergeIdle
    /\ ProbeIdle
    /\ OverlayNew
    /\ AssetIdle
    /\ ShotsIdle
    /\ Ledger64New

vars == <<parseVars, healVars, apiVars, patchVars, ledgerVars, frontVars>>

\* ------------------------------------------------------------------------
\* Specifications
\* ------------------------------------------------------------------------
\* one heal: either runFlowState on a file or runFlowStateAPI on a string
Init ==
    /\ ParseIdle
    /\ HealNew
    /\ ApiNew
    /\ PatchIdle
    /\ LedgerNew
    /\ FrontIdle

HealNext ==
    \/ \E r \in Runs : StartThrows(r)
    \/ \E r \in Runs : StartInspect(r)
    \/ \E r \in Runs : StartNoLoop(r)
    \/ \E r \in Runs : InspectFailed(r)
    \/ \E r \in Runs : InspectLooksGood(r)
    \/ \E r \in Runs : InspectFoundDefects(r)
    \/ \E r \in Runs : SurgeryFailed(r)
    \/ \E r \in Runs : SurgeryDone(r)

Next ==
    \/ InvokeHeal
    \/ InvokeApi
    \/ InvokeApiRejected
    \/ HealNext
    \/ ApiStart
    \/ ApiInspectFailed
    \/ ApiLooksGood
    \/ ApiFoundDefects
    \/ ApiSurgeryFailed
    \/ ApiSurgeryDone

Spec == Init /\ [][Next]_vars

\* every pending step of the invocation is eventually taken: the services
\* answer every call
FairSpec == Spec /\ WF_vars(Next)

TwinNext ==
    \/ InvokeTwins
    \/ HealNext

InitTwin ==
    /\ ParseIdle
    /\ HealNew
    /\ ApiIdle
    /\ PatchIdle
    /\ LedgerNew
    /\ FrontIdle

SpecTwin == InitTwin /\ [][TwinNext]_vars

ParseNext == CallParseInspector

InitParse ==
    /\ ParseInit
    /\ HealIdle
    /\ ApiIdle
    /\ PatchIdle
    /\ LedgerNew
    /\ FrontIdle

SpecParse == InitParse /\ [][ParseNext]_vars

\* one direct call of the Patch Service
InitPatch ==
    /\ ParseIdle
    /\ HealIdle
    /\ ApiIdle
    /\ PatchIdle
    /\ LedgerNew
    /\ FrontIdle

PatchNext ==
    \/ CallParseSurgeon
    \/ CallOperate
    \/ CallOperateOnCode

SpecPatch == InitPatch /\ [][PatchNext]_vars

\* the ledger and the asset routes of one server process after another
InitLedger ==
    /\ ParseIdle
    /\ HealIdle
    /\ ApiIdle
    /\ PatchIdle
    /\ LedgerNew
    /\ FrontIdle

LedgerNext ==
    \/ TrackCall
    \/ SaveAsset
    \/ SetBudget
    \/ SetBudgetRejected
    \/ ResetUsage
    \/ Restart
    \/ \E s \in Slots : GenerateAssetRejected(s)
    \/ \E s \in Slots : GenerateAssetIssued(s)
    \/ \E s \in Slots : GenerateAssetFileIssued(s)
    \/ \E s \in Slots : AssetFailed(s)
    \/ \E s \in Slots : GenerateAssetDone(s)
    \/ \E s \in Slots : GenerateAssetFileDone(s)

SpecLedger == InitLedger /\ [][LedgerNext]_vars

\* a long run of track() calls on a fresh ledger
HistoryNext == TrackRepeatedly

SpecHistory == InitLedger /\ [][HistoryNext]_vars

\* one call of mergeDefects
InitMerge ==
    /\ ParseIdle
    /\ HealIdle
    /\ ApiIdle
    /\ PatchIdle
    /\ LedgerNew
    /\ FrontIdle

MergeNext ==
    \/ CallMergeDefects
    \/ CallMergeTwice

SpecMerge == InitMerge /\ [][MergeNext]_vars

\* one call of analyzeElementLocally
InitLocal ==
    /\ ParseIdle
    /\ HealIdle
    /\ ApiIdle
    /\ PatchIdle
    /\ LedgerNew
    /\ FrontIdle

LocalNext == CallAnalyzeLocally

SpecLocal == InitLocal /\ [][LocalNext]_vars

\* a session of the overlay on a page
InitOverlay ==
    /\ ParseIdle
    /\ HealIdle
    /\ ApiIdle
    /\ PatchIdle
    /\ LedgerNew
    /\ FrontIdle

OverlayNext ==
    \/ \E el \in PageElements : HandleClick(el)
    \/ \E click \in 1..MaxGestures : InspectResponse(click)
    \/ \E idx \in 1..MaxDefects : QuickFixClicked(idx)
    \/ ApplyManualEdit
    \/ PropagateToSimilar
    \/ \E el \in PageElements : ApplyGeneratedImage(el)
    \/ UndoLastChange

SpecOverlay == InitOverlay /\ [][OverlayNext]_vars

\* one call of generateAsset
InitAsset ==
    /\ ParseIdle
    /\ HealIdle
    /\ ApiIdle
    /\ PatchIdle
    /\ LedgerNew
    /\ FrontIdle

AssetNext == CallGenerateAsset

SpecAsset == InitAsset /\ [][AssetNext]_vars

\* concurrent POST /api/generate-asset requests against a ledger whose
\* budget was set by POST /api/usage/budget and that has spent nothing
GateBudgets == {JNum(1000000), JNum(3000000), JNum(5000000), JNum(DEFAULT_BUDGET), PosInfinity}

GateNew ==
    /\ \E budget \in GateBudgets :
         /\ data = [getDefaultData(0) EXCEPT !.session.budget = budget]
         /\ last = [op |-> "setBudget", arg |-> budget, before |-> getDefaultData(0)]
    /\ usageFile = JsonRoundTrip(data)
    /\ now = 1
    /\ since = getDefaultData(0)
    /\ tracked = <<>>
    /\ reqs = [s \in Slots |-> IdleRequest]

InitGate ==
    /\ ParseIdle
    /\ HealIdle
    /\ ApiIdle
    /\ PatchIdle
    /\ GateNew
    /\ FrontIdle

GateNext ==
    \/ \E s \in Slots : GenerateAssetRejected(s)
    \/ \E s \in Slots : GenerateAssetIssued(s)
    \/ \E s \in Slots : AssetFailed(s)
    \/ \E s \in Slots : GenerateAssetDone(s)

SpecGate == InitGate /\ [][GateNext]_vars

\* concurrent screenshot inspection requests
InitShots ==
    /\ ParseIdle
    /\ HealIdle
    /\ ApiIdle
    /\ PatchIdle
    /\ LedgerNew
    /\ FrontIdle

ShotsNext ==
    \/ \E s \in Slots : ShotArrives(s)
    \/ \E s \in Slots : ShotAnswered(s)
    \/ \E s \in Slots : ShotCleanupThrows(s)

SpecShots == InitShots /\ [][ShotsNext]_vars

\* track, trackAsset, setBudget and resetSession on a ledger of JavaScript numbers
InitLedger64 ==
    /\ ParseIdle
    /\ HealIdle
    /\ ApiIdle
    /\ PatchIdle
    /\ LedgerNew
    /\ FrontIdle

Ledger64Next ==
    \/ Track64
    \/ TrackAsset64
    \/ SetBudget64
    \/ Reset64

SpecLedger64 == InitLedger64 /\ [][Ledger64Next]_vars

\* ------------------------------------------------------------------------
\* Properties
\* ------------------------------------------------------------------------
Terminal == {"off", "done", "threw"}
HealReturned(r) == run[r].pc = "done"
IsFailure(res) == res # JNull /\ ~res.success
OriginalUntouched(r) ==
    /\ FileExists(disk[r], CodeFile(r)) = FileExists(disk0[r], CodeFile(r))
    /\ FileExists(disk0[r], CodeFile(r)) =>
         ReadFile(disk[r], CodeFile(r)) = ReadFile(disk0[r], CodeFile(r))
NothingWritten(r) == writes[r] = <<>> /\ disk[r] = disk0[r]

\* C1: for maxIterations = N >= 0 and any behaviour of the two services, an
\* invocation of runFlowState has issued at most N inspection calls and at
\* most N patch calls at every moment, and it terminates.
C1_CallsWithinN ==
    \A r \in Runs :
        opts[r].maxIterations >= 0 =>
            /\ run[r].inspectCalls <= opts[r].maxIterations
            /\ run[r].patchCalls <= opts[r].maxIterations
C1_Terminated == \A r \in Runs : run[r].pc \in Terminal
C1_BoundedCallsAndTermination == []C1_CallsWithinN /\ <>C1_Terminated
C1_Witness ==
    \E r \in Runs :
        /\ HealReturned(r)
        /\ opts[r].maxIterations = 1
        /\ run[r].inspectCalls = 1
        /\ run[r].patchCalls = 1

\* C2: once an inspection call has failed, the heal has returned failure
\* with the inspection error in the summary; that call was the last
\* inspection, no patch followed it and no file was written.
C2_InspectionFailureAborts ==
    /\ \A r \in Runs :
         IsFailure(run[r].inspection) =>
            /\ HealReturned(r)
            /\ ~run[r].result.success
            /\ run[r].result.finalCode = JNull
            /\ run[r].result.summary =
                 [fmt |-> "Inspection failed: %s", val |-> run[r].inspection.error]
            /\ run[r].inspectCalls = run[r].iteration
            /\ run[r].patchCalls = run[r].iteration - 1
            /\ run[r].call = NoCall
            /\ NothingWritten(r)
    /\ IsFailure(api.inspection) =>
            /\ api.pc = "done"
            /\ api.result = [success |-> FALSE, error |-> api.inspection.error,
                             step |-> "inspect"]
            /\ api.inspectCalls = 1
            /\ api.patchCalls = 0
            /\ api.call = NoCall
C2_Witness ==
    \E r \in Runs :
        /\ IsFailure(run[r].inspection)
        /\ run[r].inspection.data # JNull
        /\ opts[r].maxIterations = 2
        /\ opts[r].autoApply

\* C3: once an inspection has reported looks_good, the heal has returned
\* success: no patch was requested in that pass, the returned code is the
\* code as it stood before the pass (the file content on iteration 1), no
\* file was written, and on iteration 1 the summary says that no defects
\* were detected.
InspectionLooksGood(res) == res # JNull /\ res.success /\ Truthy(res.data.looks_good)
C3_LooksGoodReturnsSuccess ==
    /\ \A r \in Runs :
         InspectionLooksGood(run[r].inspection) =>
            /\ HealReturned(r)
            /\ run[r].result.success
            /\ run[r].patchCalls = run[r].iteration - 1
            /\ run[r].call = NoCall
            /\ run[r].result.finalCode = run[r].currentCode
            /\ run[r].iteration = 1 =>
                 /\ run[r].result.finalCode = ReadFile(disk0[r], CodeFile(r))
                 /\ run[r].result.summary.fmt = "No defects detected - UI passed inspection."
            /\ run[r].result.previewPath = JNull
            /\ NothingWritten(r)
    /\ InspectionLooksGood(api.inspection) =>
            /\ api.pc = "done"
            /\ api.result = [success |-> TRUE, looks_good |-> TRUE,
                             message |-> "No defects detected", code |-> api.code]
            /\ api.patchCalls = 0
C3_Witness ==
    \E r \in Runs :
        /\ InspectionLooksGood(run[r].inspection)
        /\ Len(run[r].inspection.data.visual_defects) > 0
        /\ run[r].iteration = 1
        /\ opts[r].autoApply

\* C4: once the patch call has failed, the heal has returned success=false,
\* finalCode null and previewPath null with the surgery error in the
\* summary, and no file was written.
C4_PatchFailureAborts ==
    /\ \A r \in Runs :
         IsFailure(run[r].surgery) =>
            /\ HealReturned(r)
            /\ ~run[r].result.success
            /\ run[r].result.finalCode = JNull
            /\ run[r].result.previewPath = JNull
            /\ run[r].result.summary =
                 [fmt |-> "Surgery failed: %s", val |-> run[r].surgery.error]
            /\ NothingWritten(r)
    /\ IsFailure(api.surgery) =>
            /\ api.pc = "done"
            /\ api.result = [success |-> FALSE, error |-> api.surgery.error,
                             step |-> "surgery"]
C4_Witness ==
    \E r \in Runs :
        /\ IsFailure(run[r].surgery)
        /\ run[r].modelCalls = 2
        /\ opts[r].autoApply

\* C5: with autoApply=false the original file is never changed; the preview
\* is written to a path that is neither the original path nor a path of the
\* same file; the original is written only when autoApply is set, after the
\* preview and with the content written to the preview.
SameFile(p, q) == normalize(p) = normalize(q)
C5_PreviewNeverOverwritesOriginal ==
    \A r \in Runs :
        /\ ~opts[r].autoApply => OriginalUntouched(r)
        /\ run[r].result.previewPath # JNull =>
             /\ Len(writes[r]) >= 1
             /\ writes[r][1].path = run[r].result.previewPath.v
             /\ writes[r][1].path # opts[r].codePath
             /\ ~SameFile(writes[r][1].path, opts[r].codePath)
        /\ \A i \in 1..Len(writes[r]) :
             SameFile(writes[r][i].path, opts[r].codePath) =>
                /\ opts[r].autoApply
                /\ i = 2
                /\ writes[r][i].content = writes[r][1].content
        /\ Len(writes[r]) = (IF run[r].result.previewPath = JNull THEN 0
                             ELSE IF opts[r].autoApply THEN 2 ELSE 1)
C5_Witness ==
    \E r \in Runs :
        /\ HealReturned(r)
        /\ ~opts[r].autoApply
        /\ Len(writes[r]) = 1
        /\ writes[r][1].content # OriginalCode
        /\ extname(opts[r].codePath) # <<>>

\* C6: from a first inspection that reports defects followed by a successful
\* patch, the verify=true invocation and the verify=false invocation end in
\* the same way for any maxIterations >= 1: one inspection call and one
\* patch call each, the same result with success=true, the same files.
FirstPassPatched ==
    /\ Len(inspScript) >= 1
    /\ Len(surgScript) >= 1
    /\ LET first == inspect(inspScript[1]) IN
         /\ first.success
         /\ ~Truthy(first.data.looks_good)
         /\ operateOnCode(OriginalCode, JArr(first.data.visual_defects), surgScript[1]).success
AlwaysDefectsAlwaysPatched(r) ==
    /\ HealReturned(r)
    /\ opts[r].maxIterations >= 0
    /\ \A i \in 1..Len(run[r].result.iterations) :
         LET it == run[r].result.iterations[i] IN
         /\ "looks_good" \in DOMAIN it.inspection
         /\ ~Truthy(it.inspection.looks_good)
         /\ "success" \in DOMAIN it.surgery
MinOfTwo(a, b) == IF a <= b THEN a ELSE b
DefectFields == {"id", "element", "element_text", "selector_hint", "issue", "expected", "why"}
IsDefectSequence(ds) ==
    /\ DOMAIN ds = 1..Len(ds)
    /\ \A i \in 1..Len(ds) :
         /\ DOMAIN ds[i] = DefectFields
         /\ \A f \in DefectFields : ds[i][f] # Undefined
C8_NormalizerIsTotal ==
    pOut # NoOut =>
        /\ pOut.kind = "return"
        /\ TypeOf(pOut.value.data.looks_good) = "boolean"
        /\ TypeOf(pOut.value.data.needs_asset_generation) = "boolean"
        /\ IsDefectSequence(pOut.value.data.visual_defects)
C8_Witness ==
    /\ pOut # NoOut
    /\ JsonParses(StripFencing(pText))
    /\ LET doc == JsonParse(StripFencing(pText)) IN
         /\ doc.t = "obj"
         /\ "looks_good" \in DOMAIN doc.v /\ doc.v["looks_good"].t = "str"
         /\ "visual_defects" \in DOMAIN doc.v /\ doc.v["visual_defects"].t = "arr"
         /\ \E i \in 1..Len(doc.v["visual_defects"].v) : doc.v["visual_defects"].v[i] = JNull

\* C9: on the fallback path (the text is not JSON, the document is not an
\* object with a boolean looks_good, an array visual_defects and a boolean
\* needs_asset_generation) the report has looks_good=false, exactly the
\* defect "defect-parse-error" and needs_asset_generation=false.
HasField(doc, key, type) ==
    /\ doc.t = "obj"
    /\ key \in DOMAIN doc.v
    /\ doc.v[key].t = type
MalformedReply(text) ==
    \/ ~JsonParses(StripFencing(text))
    \/ LET doc == JsonParse(StripFencing(text)) IN
         \/ ~HasField(doc, "looks_good", "bool")
         \/ ~HasField(doc, "visual_defects", "arr")
         \/ ~HasField(doc, "needs_asset_generation", "bool")
C9_FallbackFailsClosed ==
    (pOut # NoOut /\ pOut.kind = "return"
     /\ (MalformedReply(pText) \/ ~pOut.value.success))
    => /\ pOut.value.data.looks_good = JBool(FALSE)
       /\ Len(pOut.value.data.visual_defects) = 1
       /\ pOut.value.data.visual_defects[1].id = JStr("defect-parse-error")
       /\ pOut.value.data.needs_asset_generation = JBool(FALSE)
       /\ ~pOut.value.success
C9_Witness ==
    /\ pOut # NoOut
    /\ JsonParses(StripFencing(pText))
    /\ LET doc == JsonParse(StripFencing(pText)) IN
         /\ HasField(doc, "looks_good", "bool") /\ doc.v["looks_good"].v
         /\ HasField(doc, "visual_defects", "arr") /\ doc.v["visual_defects"].v = <<>>
         /\ HasField(doc, "needs_asset_generation", "str")

\* C10: in every report returned by parseInspectorResponse no two defects
\* carry the same id.
C10_DefectIdsUnique ==
    (pOut # NoOut /\ pOut.kind = "return")
    => LET ds == pOut.value.data.visual_defects IN
       \A i, j \in 1..Len(ds) : i # j => ds[i].id # ds[j].id

\* C11: in every report returned by parseInspectorResponse looks_good is
\* true if and only if visual_defects is empty.
C11_LooksGoodIffNoDefects ==
    (pOut # NoOut /\ pOut.kind = "return")
    => (pOut.value.data.looks_good = JBool(TRUE)
        <=> Len(pOut.value.data.visual_defects) = 0)

\* C12: every result of parseSurgeonResponse, operate and operateOnCode has
\* success = (code # null); a failure carries code = null and an error
\* message, a success carries a code string.
PatchCalled == patch.fn # "none"
C12_SuccessIffCode ==
    PatchCalled =>
        /\ patch.out.success <=> patch.out.code # JNull
        /\ patch.out.success => patch.out.code.t = "text"
        /\ ~patch.out.success => (patch.out.code = JNull /\ patch.out.error # "")
C12_Witness ==
    /\ patch.fn = "operate"
    /\ patch.file # NoFile
    /\ ~NoDefectsProvided(patch.defects)
    /\ ~patch.out.success
    /\ patch.modelCalls = 1

\* C13: parseSurgeonResponse fails with code = null exactly when the text
\* left after trimming and taking the first fenced block (when there is
\* one) has fewer than 10 characters, and otherwise returns exactly that
\* text; "ok" fails and a jsx-fenced `const x = 1;` yields `const x = 1;`.
ExtractedCode(text) ==
    LET t == Trim(text)
        fences == {i \in 1..Len(t) : t[i] = Fence}
    IN IF Cardinality(fences) < 2 THEN t
       ELSE LET open == CHOOSE i \in fences : \A j \in fences : i <= j
                close == CHOOSE i \in fences \ {open} : \A j \in fences \ {open} : i <= j
                from == IF open + 1 < close /\ t[open + 1].k = "tag" /\ t[open + 1].known
                        THEN open + 2 ELSE open + 1
            IN Trim(SubSeq(t, from, close - 1))
JsxFencedExample == <<Fence, Tag("jsx", TRUE, 3), Ws, Code("const x = 1;", 12), Ws, Fence>>
C13_FailsExactlyWhenTooShort ==
    patch.fn = "parseSurgeonResponse" =>
        /\ (~patch.out.success /\ patch.out.code = JNull)
               <=> TextLen(ExtractedCode(patch.text)) < 10
        /\ patch.out.success => patch.out.code = JText(ExtractedCode(patch.text))
        /\ patch.text = <<Code("ok", 2)>> => ~patch.out.success
        /\ patch.text = JsxFencedExample
               => (patch.out.success /\ patch.out.code = JText(<<Code("const x = 1;", 12)>>))
C13_Witness ==
    /\ patch.fn = "parseSurgeonResponse"
    /\ patch.text = <<Fence, Code("let y = 2;", 10), Fence>>
    /\ patch.out.success

\* C14: operate and operateOnCode make no model call and return
\* success = false with an error whenever the defect list is missing or
\* empty, or the source (the file, the code string) is missing or empty.
SourceMissing ==
    \/ patch.fn = "operate" /\ patch.file \in {NoFile, JText(<<>>)}
    \/ patch.fn = "operateOnCode" /\ patch.code \in {Undefined, JText(<<>>)}
C14_NoModelCallOnBadInput ==
    (patch.fn \in {"operate", "operateOnCode"}
     /\ (NoDefectsProvided(patch.defects) \/ SourceMissing))
    => /\ patch.modelCalls = 0
       /\ ~patch.out.success
       /\ patch.out.error # ""

\* C15: checkBudget answers allowed = false exactly when budget - budgetUsed
\* is below the estimated cost, and an asset request that arrives while the
\* remaining budget is below the price of an image (0.02) is rejected with
\* the budget-exceeded error without any model call, whatever route it takes.
C15_BudgetGateOnEveryAssetRoute ==
    \A s \in Slots : reqs[s].pc # "idle" =>
        /\ reqs[s].budgetCheck # JNull =>
              (~reqs[s].budgetCheck.allowed
                 <=> Below(reqs[s].budgetCheck.remaining, reqs[s].budgetCheck.estimatedCost))
        /\ Below(reqs[s].remainingAtArrival, 2000000) =>
              /\ reqs[s].modelCalls = 0
              /\ reqs[s].status = 402
              /\ reqs[s].error = "Budget exceeded"

\* C16: one track() of a non-image request adds
\* inputTokens/1000 * inputPrice + outputTokens/1000 * outputPrice to
\* totals.estimatedCost and to session.budgetUsed (0.0005 for 1000 and 500
\* tokens at 0.00025/0.0005) and leaves imagesGenerated alone; one track()
\* of an image request adds 1 to imagesGenerated and the flat price of an
\* image (0.02), whatever its token counts are.
ExpectedCost(req) ==
    IF req.isImage THEN 2000000
    ELSE IF req.model = ProModel
         THEN (req.inputTokens * 25000 + req.outputTokens * 50000) \div 1000
         ELSE (req.inputTokens * 10000 + req.outputTokens * 20000) \div 1000
Smaller(a, b) == IF a < b THEN a ELSE b
C17_HistoryIsLast100 ==
    /\ Len(data.history) = Smaller(100, Len(since.history) + Len(tracked))
    /\ \A i \in 1..Len(data.history) :
          i <= Len(tracked) =>
             LET call == tracked[Len(tracked) - i + 1] IN
             /\ data.history[i].timestamp = call.time
             /\ data.history[i].model = call.req.model
             /\ data.history[i].endpoint = call.req.endpoint
             /\ data.history[i].cost = call.ret.cost
C17_Witness ==
    /\ Len(tracked) = 101
    /\ Len(data.history) = 100
    /\ data.history[100].timestamp = tracked[2].time
    /\ data.history[1].timestamp = tracked[101].time

\* C18: when track, trackAsset, setBudget or resetSession has returned, the
\* usage file holds exactly the in-memory ledger, so that a restart
\* reloads the ledger as it was.
C18_WriteThrough ==
    last.op \in {"track", "trackAsset", "setBudget", "resetSession"}
    => /\ usageFile # NoFile
       /\ load(usageFile, now) = data

\* C19: whatever the interleaving of the requests, every completed track()
\* has added 1 to totals.apiCalls and its cost to totals.estimatedCost:
\* nothing is lost.
RECURSIVE SumOfCosts(_)
SumOfCosts(calls) ==
    IF calls = <<>> THEN 0 ELSE Head(calls).ret.cost + SumOfCosts(Tail(calls))
C19_NoLostUpdate ==
    /\ data.totals.apiCalls = since.totals.apiCalls + Len(tracked)
    /\ data.totals.estimatedCost = since.totals.estimatedCost + SumOfCosts(tracked)
C19_Witness ==
    /\ \A s \in {1, 2} : reqs[s].pc = "done" /\ reqs[s].status = 200
                          /\ reqs[s].route = "/api/generate-asset"
    /\ reqs[1].issuedAt = reqs[2].issuedAt
    /\ Len(tracked) = 2
    /\ data.totals.apiCalls = 2

\* C20: after resetSession every counter of totals, byModel, byEndpoint and
\* the history are empty and budgetUsed is 0, whatever the ledger held.
C20_ResetClearsEverything ==
    last.op = "resetSession" =>
        /\ data.totals = [apiCalls |-> 0, inputTokens |-> 0, outputTokens |-> 0,
                          imagesGenerated |-> 0, estimatedCost |-> 0]
        /\ DOMAIN data.byModel = {}
        /\ DOMAIN data.byEndpoint = {}
        /\ data.history = <<>>
        /\ data.session.budgetUsed = 0
C20_Witness ==
    /\ last.op = "resetSession"
    /\ last.before.totals.apiCalls > 0
    /\ last.before.totals.imagesGenerated > 0
    /\ last.before.history # <<>>
    /\ last.before.session.budgetUsed > 0

\* C21: POST /api/usage/budget changes the ledger only for a positive number,
\* and then only session.budget; a zero, negative or non-numeric amount is
\* answered with the error and leaves the ledger as it was.
C21_SetBudgetValidates ==
    /\ last.op = "setBudget" =>
         /\ last.arg = PosInfinity \/ (last.arg.t = "num" /\ last.arg.v > 0)
         /\ data = [last.before EXCEPT !.session.budget = last.arg]
    /\ last.op = "setBudgetRejected" =>
         /\ ~(last.arg = PosInfinity \/ (last.arg.t = "num" /\ last.arg.v > 0))
         /\ data = last.before
C21_Witness ==
    /\ last.op = "setBudgetRejected"
    /\ last.arg = JNum(0)
    /\ last.before.totals.apiCalls > 0
    /\ last.before.totals.estimatedCost > 0

\* C22: mergeDefects(local, remote) is local, unchanged, followed by the
\* remote defects, in order, whose key (the first 30 characters of the
\* lower-cased issue) is the key of no local defect; merging a list with
\* itself adds nothing.
KeyOf(d) ==
    LET issue == IF IsText(d) THEN d ELSE d.issue IN
    IF issue = Undefined THEN <<"undefined">>
    ELSE <<"key", [i \in 1..(IF Len(issue.c) < 30 THEN Len(issue.c) ELSE 30) |-> Lower(issue.c[i])]>>
C22_MergeKeepsLocalAddsNew ==
    merge.fn = "mergeDefects" =>
        /\ merge.out = merge.local \o
             SelectSeq(merge.api,
                       LAMBDA d : \A i \in 1..Len(merge.local) : KeyOf(merge.local[i]) # KeyOf(d))
        /\ merge.api = merge.local => Len(merge.out) = Len(merge.local)
C22_Witness ==
    /\ merge.fn = "mergeDefects"
    /\ Len(merge.local) = 2
    /\ Len(merge.api) = 2
    /\ merge.local[1].issue = JChars(<<"L", "o", "w">>)
    /\ merge.api[1] = [source |-> "api", issue |-> JChars(<<"L", "O", "W">>)]
    /\ merge.out = Append(merge.local, merge.api[2])

\* C27: for a button-like element (a button tag, role="button" or type
\* submit) whose top padding is below 8px the local analysis returns exactly
\* one padding-related defect; its expected value is the most frequent
\* button padding of the baseline ("12px 24px" when none was sampled) and
\* its autoFix is {padding: that value}.
PaddingDefects(out) == {i \in 1..Len(out) : "padding" \in DOMAIN out[i].autoFix}
MostFrequent(arr) ==
    {arr[i] : i \in {i \in 1..Len(arr) : \A j \in 1..Len(arr) : Count(arr, arr[j]) <= Count(arr, arr[i])}}
ButtonLikeSmallPadding ==
    /\ probe.fn = "analyzeElementLocally"
    /\ probe.el.tag = "button" \/ probe.el.role = JStr("button") \/ probe.el.type = JStr("submit")
    /\ probe.el.paddingTop.v[1] < 80
C27_OnePaddingDefectForButtons ==
    ButtonLikeSmallPadding =>
        /\ Cardinality(PaddingDefects(probe.out)) = 1
        /\ \A i \in PaddingDefects(probe.out) :
             /\ IF probe.page.buttonPadding = <<>>
                THEN probe.out[i].expected = Css(<<120, 240>>)
                ELSE probe.out[i].expected \in MostFrequent(probe.page.buttonPadding)
             /\ probe.out[i].autoFix = [padding |-> probe.out[i].expected]

\* C23: whatever the order in which the answers of two analyses started one
\* after the other arrive, the defect list shown in the panel, which is the
\* one the quick-fix buttons apply, is the list of the element selected now.
C23_PanelShowsSelectedElement ==
    (panel.kind = "defects" /\ panel.list # <<>>) => panel.of = selectedElement

\* C28: an undo reverts the most recent applied change (quick fix, manual
\* edit, propagation to an element, applied generated image): the styles and
\* the changes to export are again what they were before that change.
C28_UndoRevertsLastChange ==
    [][Len(undoStack') < Len(undoStack) =>
          /\ elStyle' = Top(hist).style
          /\ allChanges' = Top(hist).changes]_vars

\* C24: on every failure path the result of an Inspection Service call
\* carries a DefectReport holding a single synthetic defect.
CarriesSyntheticReport(inspection) ==
    /\ inspection.data # JNull
    /\ Len(inspection.data.visual_defects) = 1
C24_FailedInspectionCarriesReport ==
    /\ \A r \in Runs :
         (run[r].inspection # JNull /\ ~run[r].inspection.success)
             => CarriesSyntheticReport(run[r].inspection)
    /\ (api.inspection # JNull /\ ~api.inspection.success)
             => CarriesSyntheticReport(api.inspection)

\* C25: the answer of POST /api/heal carries an explicit success flag, and
\* on every failure, a rejected request included, success = false with an
\* error string.
C25_HealAnswerHasSuccessFlag ==
    api.pc \in {"done", "rejected"} =>
        /\ "success" \in DOMAIN api.result
        /\ ~api.result.success => "error" \in DOMAIN api.result

\* C26: a success of the Asset Service carries non-empty image data or a
\* URL; a response with neither an inline-image part nor a file-reference
\* part gives success = false with the "no image data" error.
CarriesImage(out) == "image" \in DOMAIN out /\ out.image.buffer # ""
CarriesUrl(out) == "url" \in DOMAIN out /\ Truthy(out.url)
NoImagePart(outcome) ==
    outcome.k = "noCandidates"
    \/ /\ outcome.k = "parts"
       /\ \A i \in 1..Len(outcome.parts) :
            "inlineData" \notin DOMAIN outcome.parts[i] /\ "fileData" \notin DOMAIN outcome.parts[i]
C26_NoEmptySuccess ==
    asset.fn = "generateAsset" =>
        /\ asset.out.success => (CarriesImage(asset.out) \/ CarriesUrl(asset.out))
        /\ NoImagePart(asset.outcome) =>
              (~asset.out.success /\ asset.out.error = "No image data in response - check response structure")

\* C29: within one heal the model calls are strictly sequential.  A call is
\* issued only when every earlier one has returned: the inspection of
\* iteration n after the n-1 patches before it, and the patch of an
\* iteration after that iteration's inspection has returned successfully
\* with looks_good = false.
Sequential(st, iteration) ==
    /\ st.inspectCalls = iteration
    /\ st.call.fn = "none" => st.patchCalls \in {iteration - 1, iteration}
    /\ st.call.fn = "inspect" =>
         /\ st.patchCalls = iteration - 1
         /\ st.inspection = JNull
         /\ st.surgery = JNull
    /\ st.call.fn = "operateOnCode" =>
         /\ st.patchCalls = iteration
         /\ st.inspection # JNull
         /\ st.inspection.success
         /\ st.inspection.data.looks_good = JBool(FALSE)
         /\ st.surgery = JNull
C29_ModelCallsSequential ==
    /\ \A r \in Runs : run[r].iteration > 0 => Sequential(run[r], run[r].iteration)
    /\ api.inspectCalls > 0 => Sequential(api, 1)
C29_Witness ==
    \E r \in Runs :
        /\ opts[r].maxIterations = 2
        /\ opts[r].verify
        /\ run[r].call.fn = "operateOnCode"
        /\ run[r].inspectCalls = 1
        /\ run[r].patchCalls = 1

\* C30: when no raw defect entry of the reply supplies an id (a string entry,
\* an entry without an id, or one whose id is empty), the defect at 1-based
\* position n of the normalized report has id "defect-n": the synthesized
\* ids are pairwise distinct and follow position order.
PositionId == <<"defect-1", "defect-2", "defect-3", "defect-4">>
RawDefects(text) == Get(JsonParse(StripFencing(text)), "visual_defects").v
SuppliesId(entry) == TypeOf(entry) # "string" /\ Truthy(Get(entry, "id"))
Normalized == pOut # NoOut /\ pOut.kind = "return" /\ pOut.value.success
C30_SynthesizedIdsFollowPosition ==
    (Normalized /\ \A i \in 1..Len(RawDefects(pText)) : ~SuppliesId(RawDefects(pText)[i]))
    => LET ds == pOut.value.data.visual_defects IN
       /\ Len(ds) = Len(RawDefects(pText))
       /\ \A n \in 1..Len(ds) : ds[n].id = JStr(PositionId[n])
       /\ \A i, j \in 1..Len(ds) : i # j => ds[i].id # ds[j].id
C30_Witness ==
    /\ Normalized
    /\ Len(RawDefects(pText)) = 2
    /\ TypeOf(RawDefects(pText)[1]) # "string"
    /\ Get(RawDefects(pText)[1], "id") = Undefined
    /\ TypeOf(RawDefects(pText)[2]) = "string"
    /\ Len(pOut.value.data.visual_defects) = 2

\* C31: in every report produced by the normalization the asset-generation
\* prompt is present (not null) if and only if needs_asset_generation is true.
C31_PromptIffNeedsAsset ==
    Normalized =>
        (pOut.value.data.asset_generation_prompt # JNull
            <=> pOut.value.data.needs_asset_generation = JBool(TRUE))

\* C32: when the patch text holds a fenced block, with or without a language
\* tag (any tag), the code returned by parseSurgeonResponse is the content
\* between the fences only, without the tag and without the text around the
\* block; when it holds no fenced block, the code is the trimmed text.
FencedContent(text) ==
    LET open == MinOf(FenceAt(text))
        close == MinOf(FenceAt(text) \ {open})
        from == IF open + 1 < close /\ text[open + 1].k = "tag" THEN open + 2 ELSE open + 1
    IN Trim(SubSeq(text, from, close - 1))
C32_OnlyFencedContent ==
    (patch.fn = "parseSurgeonResponse" /\ patch.out.success) =>
        IF Cardinality(FenceAt(patch.text)) >= 2
        THEN /\ patch.out.code = JText(FencedContent(patch.text))
             /\ \A i \in 1..Len(patch.out.code.v) : patch.out.code.v[i].k # "tag"
        ELSE patch.out.code = JText(Trim(patch.text))

\* C33 (as stated): in every result returned by runFlowState the iterations
\* trail holds exactly one record per inspection call issued, numbered
\* 1, 2, ... in call order, its length is at most maxIterations,
\* success=true implies a non-null finalCode, and success=false implies that
\* finalCode and previewPath are both null.
AuditTrail(r) ==
    LET res == run[r].result IN
    /\ Len(res.iterations) = run[r].inspectCalls
    /\ \A i \in 1..Len(res.iterations) : res.iterations[i].iteration = i
    /\ res.success => res.finalCode # JNull
    /\ ~res.success => (res.finalCode = JNull /\ res.previewPath = JNull)
C33_TrailWithinMaxIterations ==
    \A r \in Runs :
        run[r].pc = "done" =>
            /\ AuditTrail(r)
            /\ Len(run[r].result.iterations) <= opts[r].maxIterations

\* C33 (amended): the same, with the length of the trail at most
\* maxIterations when maxIterations >= 0 and zero when it is negative.
C33_TrailOneRecordPerInspection ==
    \A r \in Runs :
        run[r].pc = "done" =>
            /\ AuditTrail(r)
            /\ Len(run[r].result.iterations)
                   <= (IF opts[r].maxIterations >= 0 THEN opts[r].maxIterations ELSE 0)
C33_Witness ==
    \E r \in Runs :
        /\ run[r].pc = "done"
        /\ opts[r].maxIterations = 2
        /\ run[r].result.success
        /\ Len(run[r].result.iterations) = 1
        /\ run[r].result.iterations[1].surgery # JNull

\* C34: runFlowState returns success=true only if at least one inspection
\* was issued and succeeded in that invocation, whatever maxIterations is
\* (0 and negative values included), and it writes no file (preview or
\* original) without having inspected.
SomeInspectionSucceeded(r) ==
    /\ run[r].inspectCalls >= 1
    /\ run[r].inspection # JNull
    /\ run[r].inspection.success
C34_SuccessOnlyAfterInspection ==
    \A r \in Runs :
        /\ (run[r].pc = "done" /\ run[r].result.success) => SomeInspectionSucceeded(r)
        /\ writes[r] # <<>> => SomeInspectionSucceeded(r)

\* C35: when the model's inspection reply cannot be normalized (it is not
\* JSON, or a required field is missing or of the wrong type) the heal
\* treats the inspection as failed: it ends with the parse error and no
\* patch call, and the "defect-parse-error" defect is never handed to the
\* Patch Service.
IsFallback(inspection) ==
    /\ inspection # JNull
    /\ inspection.data # JNull
    /\ \E i \in 1..Len(inspection.data.visual_defects) :
           inspection.data.visual_defects[i].id = JStr("defect-parse-error")
HandsOverParseError(call) ==
    /\ call.fn = "operateOnCode"
    /\ \E i \in 1..Len(call.defects) : call.defects[i].id = JStr("defect-parse-error")
C35_UnnormalizedInspectionAborts ==
    /\ \A r \in Runs :
         /\ (/\ run[r].inspection # JNull
             /\ inspScript[run[r].inspectCalls].k = "text"
             /\ MalformedReply(inspScript[run[r].inspectCalls].text))
                => IsFallback(run[r].inspection)
         /\ IsFallback(run[r].inspection) =>
              /\ run[r].pc = "done"
              /\ ~run[r].result.success
              /\ run[r].result.summary = [fmt |-> "Inspection failed: %s",
                                          val |-> run[r].inspection.error]
              /\ run[r].patchCalls = 0
              /\ run[r].call = NoCall
         /\ ~HandsOverParseError(run[r].call)
    /\ IsFallback(api.inspection) =>
         /\ api.pc = "done"
         /\ api.result = [success |-> FALSE, error |-> api.inspection.error, step |-> "inspect"]
         /\ api.patchCalls = 0
    /\ ~HandsOverParseError(api.call)
C35_Witness ==
    \E r \in Runs :
        /\ run[r].pc = "done"
        /\ inspScript = <<Answer(<<Doc(NoFlagReport)>>)>>
        /\ IsFallback(run[r].inspection)

\* C36: starting from budgetUsed <= budget, the asset generations admitted
\* by the budget gate never push budgetUsed above budget, however the
\* concurrent POST /api/generate-asset requests interleave.
OverBudget(d) == Below(Minus(d.session.budget, d.session.budgetUsed), 0)
C36_GateKeepsWithinBudget == ~OverBudget(data)

\* C38: the step in which a POST /api/generate-asset request is answered
\* leaves the ledger and its file as they are when the request is rejected
\* by the budget gate (402) or its model call fails (500); when it
\* succeeds (200), totals.apiCalls and totals.imagesGenerated grow by
\* exactly one and budgetUsed and the estimated cost by the price of an image.
PerImagePrice == 2000000
Answered(s) ==
    /\ reqs[s].pc # "done"
    /\ reqs'[s].pc = "done"
    /\ reqs'[s].route = "/api/generate-asset"
C38_OnlySuccessfulGenerationIsCharged ==
    [][\A s \in Slots :
          Answered(s) =>
              IF reqs'[s].status = 200
              THEN /\ data'.totals.apiCalls = data.totals.apiCalls + 1
                   /\ data'.totals.imagesGenerated = data.totals.imagesGenerated + 1
                   /\ data'.session.budgetUsed = data.session.budgetUsed + PerImagePrice
                   /\ data'.totals.estimatedCost = data.totals.estimatedCost + PerImagePrice
                   /\ data'.totals.inputTokens = data.totals.inputTokens
                   /\ data'.totals.outputTokens = data.totals.outputTokens
              ELSE /\ reqs'[s].status \in {402, 500}
                   /\ data' = data
                   /\ usageFile' = usageFile]_vars
C38_Witness ==
    \E s \in Slots :
        /\ reqs[s].pc = "done"
        /\ reqs[s].route = "/api/generate-asset"
        /\ reqs[s].status = 200
        /\ last.op = "track"
        /\ last.arg = ImageTrack(AssetPrompt)
        /\ last.before.totals.estimatedCost > 0
        /\ data.totals.imagesGenerated = last.before.totals.imagesGenerated + 1

\* C39: concurrent screenshot inspection requests do not interfere through
\* their temporary files, even when two of them read the same Date.now():
\* the inspection of a request runs on its own screenshot, its result is
\* the answer to its caller, and its temporary file is removed without
\* error (no request is answered with the error of the removal and no file
\* is left when all requests are answered).
C39_TempFilesDoNotInterfere ==
    /\ \A s \in Slots :
         /\ shots[s].pc \in {"await", "done"} => shots[s].image = Screenshot(s)
         /\ shots[s].pc = "done" =>
              /\ shots[s].status = 200
              /\ "result" \in DOMAIN shots[s].body
              /\ shots[s].body.of = Screenshot(s)
    /\ (\A s \in Slots : shots[s].pc \in {"idle", "done"})
           => \A p \in TempPaths : tmp[p] = NoFile

\* C37 (as stated): after any sequence of track, trackAsset, setBudget and
\* resetSession calls on a default ledger, totals.apiCalls equals the sum
\* of byModel[*].calls and of byEndpoint[*].calls, totals.inputTokens and
\* outputTokens equal the sums over byModel, and session.budgetUsed equals
\* totals.estimatedCost, which equals the sum of byModel[*].cost and the
\* sum of byEndpoint[*].cost.
\* the value of a floating-point number, in units of 2^MinExp
MinExp == 0 - 26
Exact(x) == x.m * 2^(x.e - MinExp)

RECURSIVE SumOver(_, _, _)
SumOver(f, keys, field) ==
    IF keys = {} THEN 0
    ELSE LET k == CHOOSE x \in keys : TRUE
             term == IF field = "cost" THEN Exact(f[k].cost) ELSE f[k][field]
         IN term + SumOver(f, keys \ {k}, field)
Total(f, field) == SumOver(f, DOMAIN f, field)
Distance(a, b) == IF a >= b THEN a - b ELSE b - a

CountsAgree(d) ==
    /\ d.totals.apiCalls = Total(d.byModel, "calls")
    /\ d.totals.apiCalls = Total(d.byEndpoint, "calls")
    /\ d.totals.inputTokens = Total(d.byModel, "inputTokens")
    /\ d.totals.outputTokens = Total(d.byModel, "outputTokens")
    /\ d.session.budgetUsed = d.totals.estimatedCost
\* the costs of the entries added up as JavaScript adds them, in the given order
RECURSIVE AddUp(_, _)
AddUp(f, order) ==
    IF order = <<>> THEN Zero
    ELSE FAdd(AddUp(f, SubSeq(order, 1, Len(order) - 1)), f[order[Len(order)]].cost)
Orders(keys) ==
    {order \in [1..Cardinality(keys) -> keys] :
        \A i, j \in 1..Cardinality(keys) : i # j => order[i] # order[j]}
\* in some order the costs add up to the total
AddsUpTo(f, total) == \E order \in Orders(DOMAIN f) : AddUp(f, order) = total
WithinRounding(d, sum) ==
    Distance(Exact(d.totals.estimatedCost), sum) * 2^SigBits
        <= 2 * d.totals.apiCalls * Exact(d.totals.estimatedCost)
====
